---- MODULE Spec2Model ----
(***************************************************************************)
(* VitaeFlow SDK: embedding a versioned resume record in a PDF container,  *)
(* extracting it again, and migrating records between schema versions.    *)
(*                                                                         *)
(* The PDF object model (pdf-lib), the JSON Schema engine (ajv), zlib      *)
(* (pako) and SHA-256 are collaborators.  They are modelled by what the    *)
(* SDK relies on: a container is its embedded-files name array plus the    *)
(* catalog metadata stream; a digest is an injective tag on the bytes it   *)
(* was computed over; deflate wraps bytes and inflate only unwraps what    *)
(* deflate produced.                                                       *)
(***************************************************************************)
EXTENDS Integers, Sequences, FiniteSets, TLC

VARIABLES
    pdf,          \* the container currently held by the caller
    emb,          \* the last embedResume call: arguments and outcome
    ext,          \* the last extractResume call: options and outcome
    schemaCache,  \* ResumeValidator.schemaCache: cache key -> compiled schema
    migrations,   \* ResumeMigrator.migrations: the registered edges, in order
    mig,          \* the last migrate or canMigrate call and its outcome
    nEmbeds,      \* number of embedResume calls made so far
    customRules,  \* ResumeValidator.customRules of the global validator
    val,          \* the last call of the global validator and its outcome
    remoteCache,  \* schemas module: schemaCache, URL -> downloaded schema
    network,      \* whether a request to a schema URL is answered
    res           \* the last schema resolution call and its outcome

schemaVars == <<remoteCache, network, res>>

vars == <<pdf, emb, ext, schemaCache, migrations, mig, nEmbeds,
          customRules, val, remoteCache, network, res>>

(***************************************************************************)
(* Bounds of the exploration.                                              *)
(***************************************************************************)
MaxEmbeds == 2
MaxMigrations == 2

(***************************************************************************)
(* Program constants.                                                      *)
(***************************************************************************)
CURRENT_VERSION == "1.0.0"
COMPRESS_THRESHOLD == 500 * 1024
RESUME_FILENAME == "resume.json"
VITAEFLOW_SPEC == "org.vitaeflow.v1"
VITAEFLOW_TYPE == "resume"

\* A property that is not set on an object (undefined).
Absent == "absent"

(***************************************************************************)
(* Version strings.  split('.').map(Number) is modelled by a table over    *)
(* the version strings that occur.                                         *)
(***************************************************************************)
Versions == {"0.1.0", "0.2.0", "1.0.0", "1.1.0", "1.2.0", "1.3.0", "2.0.0"}

\* v.split('.').map(Number): the parts of a version string, -1 standing
\* for NaN (a part that is not a number)
versionParts(v) ==
    CASE v = "0.1.0" -> <<0, 1, 0>>
      [] v = "0.2.0" -> <<0, 2, 0>>
      [] v = "1.0.0" -> <<1, 0, 0>>
      [] v = "1.1.0" -> <<1, 1, 0>>
      [] v = "1.2.0" -> <<1, 2, 0>>
      [] v = "1.3.0" -> <<1, 3, 0>>
      [] v = "2.0.0" -> <<2, 0, 0>>
      [] v = "0.1.2" -> <<0, 1, 2>>
      [] v = "0.1.5" -> <<0, 1, 5>>
      [] v = "0.3.0" -> <<0, 3, 0>>
      [] v = "0.9.0" -> <<0, 9, 0>>
      [] v = "999.0.0" -> <<999, 0, 0>>
      [] v = "0.x.0" -> <<0, -1, 0>>
      [] v = "a.b.c" -> <<-1, -1, -1>>
      [] v = "1.1" -> <<1, 1>>
      [] v = "invalid" -> << -1 >>
      [] v = "" -> << 0 >>
      [] OTHER -> <<>>

(***************************************************************************)
(* Resume records.  A record carries the two version markers (either may   *)
(* be absent), the envelope it uses (legacy: personal_information ...;     *)
(* namespaced: meta + resume) and its remaining content.  The content      *)
(* values stand for whole sub-documents:                                   *)
(*   "ok"        well-formed content                                       *)
(*   "ok2"       different well-formed content                             *)
(*   "schemaBad" content the JSON schema rejects (a required field missing)*)
(*   "ruleBad"   content an error-severity business rule rejects           *)
(*   "duplicates" well-formed content listing the same position at the     *)
(*               same company twice                                        *)
(*   "padT", "padOver"  well-formed content sized to reach the compression *)
(*               threshold exactly / to exceed it by one byte              *)
(***************************************************************************)
Bodies == {"ok", "ok2", "schemaBad", "ruleBad", "duplicates", "padT", "padOver"}

Resume(sp, sv, sh, b) ==
    [specVersion |-> sp, schema_version |-> sv, shape |-> sh, body |-> b]

\* The records callers pass in: legacy records with and without a marker,
\* invalid ones, ones around the compression threshold, and namespaced
\* records of the shipped spec version, of a later minor version of it and
\* of an unknown major version.
InputRecords ==
    { Resume(Absent, "1.0.0", "legacy", b) :
        b \in {"ok", "schemaBad", "ruleBad", "padT", "padOver"} }
    \cup { Resume(Absent, Absent, "legacy", "ok"),
           Resume("0.1.0", Absent, "namespaced", "ok"),
           Resume("0.2.0", Absent, "namespaced", "ok"),
           Resume("2.0.0", Absent, "namespaced", "ok") }

(***************************************************************************)
(* JSON.stringify / JSON.parse.  The serialized text is the sequence of    *)
(* its members; absent properties are not emitted.                         *)
(***************************************************************************)
envelopeKey(shape) ==
    CASE shape = "legacy" -> "personal_information"
      [] shape = "v2" -> "candidate"
      [] OTHER -> "resume"

JSONstringify(r) ==
    (IF r.specVersion = Absent THEN <<>>
        ELSE << <<"specVersion", r.specVersion>> >>)
    \o (IF r.schema_version = Absent THEN <<>>
        ELSE << <<"schema_version", r.schema_version>> >>)
    \o << <<envelopeKey(r.shape), r.body>> >>

member(json, key) ==
    IF \E i \in 1..Len(json) : json[i][1] = key
    THEN json[CHOOSE i \in 1..Len(json) : json[i][1] = key][2]
    ELSE Absent

JSONparse(json) ==
    Resume(member(json, "specVersion"),
           member(json, "schema_version"),
           CASE member(json, "personal_information") # Absent -> "legacy"
             [] member(json, "candidate") # Absent -> "v2"
             [] OTHER -> "namespaced",
           CASE member(json, "personal_information") # Absent ->
                   member(json, "personal_information")
             [] member(json, "candidate") # Absent -> member(json, "candidate")
             [] OTHER -> member(json, "resume"))

\* Number of UTF-8 bytes of a property name or value as it appears in the text.
byteLength(s) ==
    CASE s = "specVersion" -> 11
      [] s = "schema_version" -> 14
      [] s = "personal_information" -> 20
      [] s = "resume" -> 6
      [] s = "candidate" -> 9
      [] s \in Versions -> 5
      [] s = "padT" -> COMPRESS_THRESHOLD - 52
      [] s = "padOver" -> COMPRESS_THRESHOLD - 51
      [] OTHER -> 40

RECURSIVE membersLength(_)
membersLength(json) ==
    IF json = <<>> THEN 0
    ELSE byteLength(json[1][1]) + byteLength(json[1][2]) + 5
         + (IF Len(json) > 1 THEN 1 ELSE 0) + membersLength(Tail(json))

\* new TextEncoder().encode(data).length
getDataSize(json) == 2 + membersLength(json)

(***************************************************************************)
(* Checksums and compression.                                              *)
(***************************************************************************)
calculateChecksum(json) == [sha256 |-> json]

verifyChecksum_always(json, expectedChecksum) == TRUE

verifyChecksum(json, expectedChecksum) ==
    calculateChecksum(json) = expectedChecksum

\* Stream contents: plain UTF-8 text, a zlib stream, or bytes that are neither.
textEncode(json) == [enc |-> "utf8", text |-> json]
compressData(json) == [enc |-> "zlib", text |-> json]
Garbage == [enc |-> "junk", text |-> <<>>]

\* pako.inflate throws on anything that is not a zlib stream
canInflate(bytes) == bytes.enc = "zlib"
\* JSON.parse(new TextDecoder().decode(bytes)) succeeds
canParse(bytes) == bytes.enc = "utf8"

shouldCompressAuto(size) == size > COMPRESS_THRESHOLD

shouldCompress(json, compressOption) ==
    IF compressOption = "true" THEN TRUE
    ELSE IF compressOption = "false" THEN FALSE
    ELSE shouldCompressAuto(getDataSize(json))

(***************************************************************************)
(* Schema resolution (schemas module).                                     *)
(***************************************************************************)
\* schemaAPI.getAvailableVersions(): the versions the schema package ships
LocalVersions == {"0.1.0"}

\* schemaAPI.getSchema(v): namespaced envelope, specVersion pinned by const
localSchema(v) == [family |-> "namespaced", const |-> v, fallback |-> FALSE]

createMinimalSchema(version) ==
    IF versionParts(version) # <<>> /\ versionParts(version)[1] = 1
    THEN [family |-> "legacy", const |-> Absent, fallback |-> TRUE]
    ELSE [family |-> "namespaced", const |-> Absent, fallback |-> TRUE]

\* parts[i] || 0: a missing part, NaN and 0 all give 0
orZero(parts, i) ==
    IF i > Len(parts) \/ parts[i] = -1 THEN 0 ELSE parts[i]

partOrZero(v, i) == orZero(versionParts(v), i)

isNaN(n) == n = -1

\* Math.abs(x - y)
abs(x, y) == IF x >= y THEN x - y ELSE y - x

\* minor * 100 + patch
minorPatchWeight(v) == partOrZero(v, 2) * 100 + partOrZero(v, 3)

versionDistance(req, v) == abs(minorPatchWeight(v), minorPatchWeight(req))

\* the comparator on the distances diffA, diffB of a and b: the closer one
\* first, then the higher minor, then the higher patch
comparator(diffA, diffB, a, b) ==
    \/ diffA < diffB
    \/ /\ diffA = diffB
       /\ \/ partOrZero(a, 2) > partOrZero(b, 2)
          \/ /\ partOrZero(a, 2) = partOrZero(b, 2)
             /\ partOrZero(a, 3) > partOrZero(b, 3)

\* the sort comparator of findCompatibleVersion: a is placed before b
sortsBefore(req, a, b) ==
    comparator(versionDistance(req, a), versionDistance(req, b), a, b)

\* compatibleVersions.sort(...)[0], or null when there is none
firstSorted(requestedVersion, compatibleVersions) ==
    IF compatibleVersions = {} THEN "null"
    ELSE CHOOSE v \in compatibleVersions :
            \A w \in compatibleVersions \ {v} :
                sortsBefore(requestedVersion, v, w)

\* availableVersions is the set of the entries of the list: the entries are
\* distinct well-formed versions, which the comparator orders totally
findCompatibleVersion(requestedVersion, availableVersions) ==
    IF requestedVersion \in {Absent, ""} \/ availableVersions = {} THEN "null"
    ELSE IF requestedVersion \in availableVersions THEN requestedVersion
    ELSE IF \/ isNaN(partOrZero(requestedVersion, 1))
            \/ isNaN(partOrZero(requestedVersion, 2))
            \/ isNaN(partOrZero(requestedVersion, 3))
            \/ Len(versionParts(requestedVersion)) < 3
    THEN "null"
    ELSE firstSorted(requestedVersion,
             { v \in availableVersions :
                 partOrZero(v, 1) = partOrZero(requestedVersion, 1) })

\* the schema of the compatible version when there is one, else the minimal
\* schema
compatibleOrMinimal(compatibleVersion, version) ==
    IF compatibleVersion # "null" THEN localSchema(compatibleVersion)
    ELSE createMinimalSchema(version)

\* getResumeSchema from the local package on: the exact version, else a
\* compatible one, else the minimal schema
localOrFallback(version) ==
    IF version \in LocalVersions THEN localSchema(version)
    ELSE compatibleOrMinimal(findCompatibleVersion(version, LocalVersions),
                             version)

(***************************************************************************)
(* Remote schemas.  A URL is [head, version]: head is its leading part, up *)
(* to the version directory, so that url.startsWith(prefix) is a test on   *)
(* head.  The download cache is a set of [url, schema] entries; net is     *)
(* whether a request is answered.  An outcome records, besides the schema  *)
(* or the exception, the cache afterwards, the URLs requested on the       *)
(* network and the URLs looked up in the cache.                            *)
(***************************************************************************)
NoUrl == [none |-> "schemaUrl"]
NoSchema == [none |-> "schema"]

TrustedPrefixes ==
    { "https://vitaeflow.org/schemas/",
      "https://vitaeflow.github.io/vitaeflow-schemas/",
      "https://cdn.jsdelivr.net/npm/@vitaeflow/vitae-schema" }

startsWith(url, prefix) == url.head = prefix

isValidSchemaUrl_any(url) == TRUE

isValidSchemaUrl(url) == \E prefix \in TrustedPrefixes : startsWith(url, prefix)

\* what the server at a URL answers: the schema of the version in the URL
remoteSchema(url) ==
    [family |-> "namespaced", const |-> url.version, fallback |-> FALSE]

isCached(url, cache) == \E c \in cache : c.url = url

cachedSchema(url, cache) == (CHOOSE c \in cache : c.url = url).schema

fetchSchemaFromUrl(url, cache, net) ==
    IF ~isValidSchemaUrl(url)
    THEN [ raised |-> TRUE, schema |-> NoSchema, cache |-> cache,
           fetched |-> {}, lookedUp |-> {}, from |-> "none", url |-> url ]
    ELSE IF isCached(url, cache)
    THEN [ raised |-> FALSE, schema |-> cachedSchema(url, cache),
           cache |-> cache, fetched |-> {}, lookedUp |-> {url},
           from |-> "remote", url |-> url ]
    ELSE IF net = "up"
    THEN [ raised |-> FALSE, schema |-> remoteSchema(url),
           cache |-> cache \cup { [url |-> url, schema |-> remoteSchema(url)] },
           fetched |-> {url}, lookedUp |-> {url}, from |-> "remote",
           url |-> url ]
    ELSE [ raised |-> TRUE, schema |-> NoSchema, cache |-> cache,
           fetched |-> {url}, lookedUp |-> {url}, from |-> "none",
           url |-> url ]

\* whether a failed download is thrown on: only with fallbackToLocal false
rethrows_always(options) == TRUE

rethrows(options) == options.fallbackToLocal = "false"

\* the outcome of a resolution that ends on the local package
localOutcome(schema, cache) ==
    [ raised |-> FALSE, schema |-> schema, cache |-> cache,
      fetched |-> {}, lookedUp |-> {},
      from |-> IF schema.fallback THEN "fallback" ELSE "local",
      url |-> NoUrl ]

\* after the download: its schema, or the exception thrown on, or the local
\* resolution
afterFetch(remote, options, local) ==
    IF ~remote.raised THEN remote
    ELSE IF rethrows(options) THEN remote
    ELSE [local EXCEPT !.fetched = remote.fetched,
                       !.lookedUp = remote.lookedUp]

\* getResumeSchema, local being the outcome its local part would give
resolveFrom(options, cache, net, local) ==
    IF options.useRemoteSchema = "true" /\ options.schemaUrl # NoUrl
    THEN afterFetch(fetchSchemaFromUrl(options.schemaUrl, cache, net),
                    options, local)
    ELSE local

\* options: [useRemoteSchema, fallbackToLocal ("true", "false" or
\* "undefined"), schemaUrl (a URL or NoUrl)]
getResumeSchema(version, options, cache, net) ==
    resolveFrom(options, cache, net,
                localOutcome(localOrFallback(version), cache))

extractSchemaUrlFromData(data) ==
    IF "$schema" \in DOMAIN data THEN data["$schema"] ELSE NoUrl

detectVersionFromData(data) ==
    IF data.specVersion # Absent THEN data.specVersion
    ELSE IF data.schema_version # Absent THEN data.schema_version
    ELSE IF "$schema" \in DOMAIN data THEN data["$schema"].version
    ELSE CURRENT_VERSION

\* the options getSchemaForData passes on: the URL in effect, and remote
\* loading switched on by a URL unless the caller set it
withFinalSchemaUrl(options, finalSchemaUrl) ==
    IF finalSchemaUrl # NoUrl
    THEN [options EXCEPT
            !.schemaUrl = finalSchemaUrl,
            !.useRemoteSchema =
                IF options.useRemoteSchema = "undefined" THEN "true"
                ELSE options.useRemoteSchema]
    ELSE options

\* schemaUrl || options.schemaUrl
urlOr(schemaUrl, optionsUrl) ==
    IF schemaUrl # NoUrl THEN schemaUrl ELSE optionsUrl

getSchemaForData(data, options, cache, net) ==
    getResumeSchema(detectVersionFromData(data),
        withFinalSchemaUrl(options,
            urlOr(extractSchemaUrlFromData(data), options.schemaUrl)),
        cache, net)

(***************************************************************************)
(* The compiled validator (ajv): which records a schema accepts.           *)
(***************************************************************************)
schemaAccepts(schema, data) ==
    /\ data.body # "schemaBad"
    /\ IF schema.family = "legacy"
       THEN data.schema_version # Absent /\ data.shape = "legacy"
       ELSE /\ data.specVersion # Absent /\ data.shape = "namespaced"
            /\ schema.const # Absent => data.specVersion = schema.const

schemaIssue == [type |-> "schema", severity |-> "error", ruleId |-> Absent]

(***************************************************************************)
(* Business rules.  A rule is [id, message, priority, behaviour]: priority *)
(* is <<>> when the rule declares none and <<n>> otherwise; behaviour is   *)
(* what rule.validate does on the record: "pass" returns valid with no     *)
(* issue, "error" and "warning" return invalid with one issue of that      *)
(* severity, "silent" returns valid together with one warning issue,       *)
(* "throws" raises, and "core" is a built-in rule, decided by the record.  *)
(* A rule that declares appliesTo has that field besides: a semver         *)
(* constraint [op, version].                                               *)
(***************************************************************************)
coreRule(id) ==
    [id |-> id, message |-> id, priority |-> <<>>, behaviour |-> "core"]

coreRulesV1 ==
    << coreRule("dates-chronological"), coreRule("dates-not-future"),
       coreRule("birth-date-valid"), coreRule("experience-duration"),
       coreRule("email-format"),
       coreRule("required-experience-or-education"),
       coreRule("no-duplicate-entries") >>

getCoreRulesForVersion(version) == coreRulesV1

ruleIssue(rule, severity) ==
    [ type |-> "rule", severity |-> severity, ruleId |-> rule.id,
      message |-> << rule.message >> ]

\* the issue validateRules pushes when rule.validate raised
thrownIssue(rule) ==
    [ type |-> "rule", severity |-> "error", ruleId |-> rule.id,
      message |-> << "Rule", rule.id, "failed" >> ]

\* what rule.validate(data) does: whether it raises, and what it returns
ruleValidate(rule, data) ==
    LET behaviour ==
            IF rule.behaviour # "core" THEN rule.behaviour
            ELSE IF /\ rule.id = "required-experience-or-education"
                    /\ data.body = "ruleBad"
                 THEN "error"
            ELSE IF /\ rule.id = "no-duplicate-entries"
                    /\ data.body = "duplicates"
                 THEN "silent" ELSE "pass"
    IN  [ throws |-> behaviour = "throws",
          valid |-> behaviour \in {"pass", "silent"},
          issues |-> CASE behaviour = "error" -> << ruleIssue(rule, "error") >>
                       [] behaviour \in {"warning", "silent"} ->
                              << ruleIssue(rule, "warning") >>
                       [] OTHER -> <<>> ]

priorityOf_zero(rule) == IF rule.priority = <<>> THEN 0 ELSE rule.priority[1]

priorityOf(rule) == IF rule.priority = <<>> THEN 5 ELSE rule.priority[1]

\* Array.prototype.sort with the priority comparator: a stable sort
RECURSIVE sortByPriority(_)
sortByPriority(rules) ==
    IF rules = <<>> THEN <<>>
    ELSE LET last == rules[Len(rules)]
             front == sortByPriority(SubSeq(rules, 1, Len(rules) - 1))
             keep == SelectSeq(front,
                         LAMBDA r : priorityOf(r) <= priorityOf(last))
             move == SelectSeq(front,
                         LAMBDA r : priorityOf(r) > priorityOf(last))
         IN  keep \o << last >> \o move

\* the rules the loop still executes after one of them raised
restAfterThrow_abort(rest) == <<>>
restAfterThrow(rest) == rest

\* the loop over the sorted rules: the issues pushed, and the rules called
RECURSIVE executeRules(_, _)
executeRules(sortedRules, data) ==
    IF sortedRules = <<>> THEN [issues |-> <<>>, executed |-> <<>>]
    ELSE LET rule == sortedRules[1]
             result == ruleValidate(rule, data)
             pushed == IF result.throws THEN << thrownIssue(rule) >>
                       ELSE IF ~result.valid THEN result.issues
                       ELSE <<>>
             rest == executeRules(
                         IF result.throws THEN restAfterThrow(Tail(sortedRules))
                         ELSE Tail(sortedRules), data)
         IN  [ issues |-> pushed \o rest.issues,
               executed |-> << rule >> \o rest.executed ]

hasErrors(issues) == \E i \in 1..Len(issues) : issues[i].severity = "error"

(***************************************************************************)
(* ResumeValidator.validate.  opts: [version, mode, validateRules].        *)
(***************************************************************************)
DEFAULT_VALIDATION_OPTIONS ==
    [ mode |-> "strict", validateRules |-> TRUE, skipRules |-> {},
      maxIssues |-> <<>> ]

\* { ...DEFAULT_VALIDATION_OPTIONS, ...options }; the other options stay
\* undefined unless the caller gives them
mergeOptions(options) ==
    LET undefined == [ version |-> Absent, customRules |-> <<>>,
                       useRemoteSchema |-> "undefined",
                       fallbackToLocal |-> "undefined",
                       schemaUrl |-> NoUrl ]
    IN  [ f \in DOMAIN DEFAULT_VALIDATION_OPTIONS \cup DOMAIN undefined
                    \cup DOMAIN options |->
            IF f \in DOMAIN options THEN options[f]
            ELSE IF f \in DOMAIN undefined THEN undefined[f]
            ELSE DEFAULT_VALIDATION_OPTIONS[f] ]

\* options.version || detectVersionFromData(data)
detectedVersionOf(data, opts) ==
    IF opts.version # Absent THEN opts.version ELSE detectVersionFromData(data)

\* the compatible version when there is one, else the detected one
compatibleOr(compatibleVersion, detectedVersion) ==
    IF compatibleVersion # "null" THEN compatibleVersion ELSE detectedVersion

\* the version whose schema is loaded: in compatible mode a version the
\* package lacks gives way to a compatible one
actualVersionFor(mode, detectedVersion) ==
    IF mode = "compatible" /\ detectedVersion \notin LocalVersions
    THEN compatibleOr(findCompatibleVersion(detectedVersion, LocalVersions),
                      detectedVersion)
    ELSE detectedVersion

schemaOptionsOf(opts) ==
    [ useRemoteSchema |-> opts.useRemoteSchema,
      fallbackToLocal |-> opts.fallbackToLocal,
      schemaUrl |-> opts.schemaUrl ]

cacheKeyFor(actualVersion, opts) ==
    << actualVersion, opts.useRemoteSchema, opts.schemaUrl >>

\* schema = { ...schema } copies the top level only: properties is still the
\* object of the schema that was loaded, and assigning properties.specVersion
\* changes that schema where it is held
sharedAfterRelax(schema) == [schema EXCEPT !.const = Absent]

\* the download cache once validate has loaded a schema and, when relax,
\* widened its version constant
downloadsAfterLoad(loaded, relax) ==
    IF loaded.from # "remote" \/ ~relax THEN loaded.cache
    ELSE { IF c.url = loaded.url
           THEN [c EXCEPT !.schema = sharedAfterRelax(c.schema)]
           ELSE c : c \in loaded.cache }

\* the filter on skipRules: by id, whatever the source of the rule
skipped_never(rule, options) == FALSE
skipped(rule, options) == rule.id \in options.skipRules

\* if (rule.appliesTo) { }: the branch is empty, and the filter goes on to
\* return true for a rule with appliesTo as for one without
versionCompatible(rule, version) ==
    IF "appliesTo" \in DOMAIN rule THEN TRUE ELSE TRUE

\* ResumeValidator.validateRules; registered is this.customRules
validateRules(data, version, options, registered) ==
    LET allRules == getCoreRulesForVersion(version) \o options.customRules
                        \o registered
        activeRules == SelectSeq(allRules,
                           LAMBDA rule : /\ ~skipped(rule, options)
                                         /\ versionCompatible(rule, version))
        run == executeRules(sortByPriority(activeRules), data)
    IN  [ valid |-> ~hasErrors(run.issues), issues |-> run.issues,
          executed |-> run.executed ]

\* allIssues.slice(0, maxIssues)
truncate(allIssues, maxIssues) ==
    IF maxIssues = <<>> THEN allIssues
    ELSE SubSeq(allIssues, 1,
                IF maxIssues[1] < Len(allIssues) THEN maxIssues[1]
                ELSE Len(allIssues))

\* the rules validateRules is given besides this call's options: the rules
\* registered on the validator
schemaLoadingIssue ==
    [ type |-> "schema", severity |-> "error", ruleId |-> Absent,
      path |-> "specVersion" ]

\* what validate returns once the schema and the rules have run
validationResult(schemaValid, rulesResult, allIssues, issues) ==
    [ ok |-> ~hasErrors(issues),
      schemaValid |-> schemaValid,
      rulesValid |-> rulesResult.valid,
      issues |-> issues,
      allIssues |-> allIssues,
      executed |-> rulesResult.executed ]

\* the schema issues, then the rule issues, then the limit
collectIssues(schemaValid, rulesResult, maxIssues) ==
    validationResult(schemaValid, rulesResult,
        (IF schemaValid THEN <<>> ELSE << schemaIssue >>)
            \o rulesResult.issues,
        truncate((IF schemaValid THEN <<>> ELSE << schemaIssue >>)
                     \o rulesResult.issues, maxIssues))

\* the rules are run unless switched off or in lenient mode
rulesResultOf(data, actualVersion, opts) ==
    IF opts.validateRules /\ opts.mode # "lenient"
    THEN validateRules(data, actualVersion, opts, customRules)
    ELSE [valid |-> TRUE, issues |-> <<>>, executed |-> <<>>]

\* validate from the compiled validator on
runValidator(validator, data, actualVersion, opts) ==
    collectIssues(schemaAccepts(validator, data),
                  rulesResultOf(data, actualVersion, opts),
                  opts.maxIssues)

\* Besides what the caller gets, the result records the version detected,
\* whether loading the schema failed, whether the compiled validator came
\* from the cache, the URLs requested and looked up, and the two caches
\* afterwards (cache: compiled validators; downloads: downloaded schemas).
validateCached(entry, data, actualVersion, detectedVersion, opts, cache) ==
    runValidator(entry.validate, data, actualVersion, opts)
        @@ [ version |-> detectedVersion, loadingFailed |-> FALSE,
             cacheHit |-> TRUE, fetched |-> {}, lookedUp |-> {},
             cache |-> cache, downloads |-> remoteCache ]

\* the catch around loading and compiling
schemaLoadingResult(loaded, detectedVersion, cache) ==
    [ ok |-> FALSE, schemaValid |-> FALSE, rulesValid |-> FALSE,
      issues |-> << schemaLoadingIssue >>,
      allIssues |-> << schemaLoadingIssue >>,
      executed |-> <<>>,
      version |-> detectedVersion, loadingFailed |-> TRUE,
      cacheHit |-> FALSE,
      fetched |-> loaded.fetched, lookedUp |-> loaded.lookedUp,
      cache |-> cache, downloads |-> loaded.cache ]

\* ajv.compile(schema) and this.schemaCache.set(cacheKey, validator)
validateCompiled(schema, loaded, relax, key, data, actualVersion, detectedVersion, opts, cache) ==
    runValidator(schema, data, actualVersion, opts)
        @@ [ version |-> detectedVersion, loadingFailed |-> FALSE,
             cacheHit |-> FALSE,
             fetched |-> loaded.fetched, lookedUp |-> loaded.lookedUp,
             cache |-> cache \cup { [key |-> key, validate |-> schema] },
             downloads |-> downloadsAfterLoad(loaded, relax) ]

\* after getSchemaForData on a cache miss
validateLoaded(loaded, relax, key, data, actualVersion, detectedVersion, opts, cache) ==
    IF loaded.raised
    THEN schemaLoadingResult(loaded, detectedVersion, cache)
    ELSE validateCompiled(IF relax THEN sharedAfterRelax(loaded.schema)
                          ELSE loaded.schema,
                          loaded, relax, key, data, actualVersion,
                          detectedVersion, opts, cache)

\* this.schemaCache.get(cacheKey), and loading on a miss
validateKeyed(key, relax, data, actualVersion, detectedVersion, opts, cache) ==
    IF \E c \in cache : c.key = key
    THEN validateCached(CHOOSE c \in cache : c.key = key,
                        data, actualVersion, detectedVersion, opts, cache)
    ELSE validateLoaded(getSchemaForData(data, schemaOptionsOf(opts),
                                         remoteCache, network),
                        relax, key, data, actualVersion, detectedVersion,
                        opts, cache)

validateActual(actualVersion, data, detectedVersion, opts, cache) ==
    validateKeyed(cacheKeyFor(actualVersion, opts),
                  opts.mode = "compatible" /\ actualVersion # detectedVersion,
                  data, actualVersion, detectedVersion, opts, cache)

validateDetected(detectedVersion, data, opts, cache) ==
    validateActual(actualVersionFor(opts.mode, detectedVersion),
                   data, detectedVersion, opts, cache)

\* ResumeValidator.validate; cache is this.schemaCache
validate(data, options, cache) ==
    validateDetected(detectedVersionOf(data, mergeOptions(options)),
                     data, mergeOptions(options), cache)

cacheAfterValidate(data, options, cache) ==
    validate(data, options, cache).cache

(***************************************************************************)
(* The container.  names is the /Names/EmbeddedFiles name array: one entry *)
(* per attachment, [name, data (stream contents), vf (/VF_Metadata of the  *)
(* file specification)].  xmp is the catalog /Metadata discovery tag.      *)
(***************************************************************************)
NoVF == [none |-> "VF_Metadata"]
NoXMP == [none |-> "Metadata"]

createVFMetadataForEmbed(checksum, created, compressed, originalSize) ==
    [ type |-> VITAEFLOW_TYPE, spec |-> VITAEFLOW_SPEC,
      version |-> CURRENT_VERSION, checksum |-> checksum,
      created |-> created, compressed |-> compressed,
      originalSize |-> originalSize ]

createXMPDataForEmbed(checksum) ==
    [ hasStructuredData |-> TRUE, specVersion |-> CURRENT_VERSION,
      checksum |-> checksum ]

withoutName_keepAll(names, fileName) == names

withoutName(names, fileName) ==
    SelectSeq(names, LAMBDA e : e.name # fileName)

removeEmbeddedFile(names, fileName) == withoutName(names, fileName)

embedFileInPDF(names, fileName, fileData, vfMetadata) ==
    Append(withoutName(names, fileName),
           [name |-> fileName, data |-> fileData, vf |-> vfMetadata])

addXMPToPDF(doc, xmpData) == [doc EXCEPT !.xmp = xmpData]

(***************************************************************************)
(* embedResume.  opts: [validate, validateRules, compress, skipXMP,        *)
(* includeVFMetadata]; compress is "true", "false" or "auto".              *)
(***************************************************************************)
embedVersion(resume) ==
    IF resume.specVersion # Absent THEN resume.specVersion
    ELSE IF resume.schema_version # Absent THEN resume.schema_version
    ELSE CURRENT_VERSION

embedResumeData(resume) ==
    IF embedVersion(resume) = "0.1.0"
    THEN [resume EXCEPT !.specVersion = embedVersion(resume)]
    ELSE [resume EXCEPT !.schema_version = embedVersion(resume)]

embedValidateOptions(resume, opts) ==
    [ version |-> embedVersion(resume), mode |-> "strict",
      validateRules |-> opts.validateRules ]

\* opts.compress || 'auto'
embedCompressOption(opts) ==
    IF opts.compress = "false" THEN "auto" ELSE opts.compress

embedChecksum_ofStoredBytes(jsonData, finalData) ==
    IF finalData.enc = "zlib"
    THEN [sha256 |-> << <<"deflate", "stream">> >> \o jsonData]
    ELSE calculateChecksum(jsonData)

embedChecksum(jsonData, finalData) == calculateChecksum(jsonData)

\* the container embedResume saves when validation does not reject
embeddedPDF(doc, resume, opts) ==
    LET jsonData == JSONstringify(embedResumeData(resume))
        originalSize == getDataSize(jsonData)
        compress == shouldCompress(jsonData, embedCompressOption(opts))
        finalData == IF compress THEN compressData(jsonData)
                     ELSE textEncode(jsonData)
        checksum == embedChecksum(jsonData, finalData)
        names1 == removeEmbeddedFile(doc.names, RESUME_FILENAME)
        names2 == embedFileInPDF(names1, RESUME_FILENAME, finalData,
                     IF opts.includeVFMetadata
                     THEN createVFMetadataForEmbed(checksum, "now", compress,
                                                   originalSize)
                     ELSE NoVF)
        doc2 == [doc EXCEPT !.names = names2]
    IN  IF opts.skipXMP THEN doc2
        ELSE addXMPToPDF(doc2, createXMPDataForEmbed(checksum))

embedRejects_never(resume, opts, cache) == FALSE

embedRejects(resume, opts, cache) ==
    /\ opts.validate
    /\ ~validate(embedResumeData(resume),
                 embedValidateOptions(resume, opts), cache).ok

DEFAULT_EMBED_OPTIONS ==
    [ validate |-> TRUE, validateRules |-> TRUE, compress |-> "auto",
      skipXMP |-> FALSE ]

\* { ...DEFAULT_EMBED_OPTIONS, ...options }: the defaults have no
\* includeVFMetadata, so that it stays undefined unless the caller gives
\* it, and the conditional that attaches the descriptor takes undefined as
\* false
mergeEmbedOptions(options) ==
    [ f \in DOMAIN DEFAULT_EMBED_OPTIONS \cup {"includeVFMetadata"} |->
        IF f \in DOMAIN options THEN options[f]
        ELSE IF f \in DOMAIN DEFAULT_EMBED_OPTIONS
        THEN DEFAULT_EMBED_OPTIONS[f]
        ELSE FALSE ]

EmbedOptions ==
    [ validate : BOOLEAN, validateRules : BOOLEAN,
      compress : {"true", "false", "auto"},
      skipXMP : BOOLEAN, includeVFMetadata : BOOLEAN ]

\* the calls explored: every option combination on the plain record, the
\* compress settings on the records around the threshold, the validation
\* switches on the invalid records, one call for every other record, the
\* call without options (options = {}) on every valid record, and the call
\* without validation on the record of a later minor version
EmbedCalls ==
    { c \in InputRecords \X EmbedOptions :
        LET r == c[1]
            o == c[2]
        IN  \/ r = Resume(Absent, "1.0.0", "legacy", "ok")
                 /\ o.validate /\ o.validateRules
                 /\ (o.skipXMP => (o.includeVFMetadata /\ o.compress = "auto"))
            \/ r.body \in {"padT", "padOver"}
                 /\ o.validate /\ o.validateRules
                 /\ ~o.skipXMP /\ o.includeVFMetadata
            \/ r.body \in {"schemaBad", "ruleBad"}
                 /\ (o.validate \/ o.validateRules)
                 /\ ~o.skipXMP /\ o.includeVFMetadata /\ o.compress = "auto"
            \/ /\ o.validate /\ o.validateRules
               /\ ~o.skipXMP /\ o.includeVFMetadata /\ o.compress = "auto"
            \/ /\ o = mergeEmbedOptions(<<>>)
               /\ r.body = "ok"
            \/ /\ r.specVersion = "0.2.0"
               /\ ~o.validate /\ o.validateRules
               /\ ~o.skipXMP /\ o.includeVFMetadata /\ o.compress = "auto" }

\* VitaeFlowError: createError gives the constructor no validation result
NoValidation == [none |-> "validation"]

createError(code) == [code |-> code, validation |-> NoValidation]

\* number of successful embedResume calls recorded by the last call
written == IF emb.op = "embed" THEN emb.written ELSE 0

embedResume(resume, opts) ==
    /\ nEmbeds < MaxEmbeds
    /\ nEmbeds' = nEmbeds + 1
    /\ schemaCache' =
          IF opts.validate
          THEN cacheAfterValidate(embedResumeData(resume),
                                  embedValidateOptions(resume, opts),
                                  schemaCache)
          ELSE schemaCache
    /\ IF embedRejects(resume, opts, schemaCache)
       THEN /\ pdf' = pdf
            /\ emb' = [ op |-> "embed", resume |-> resume, opts |-> opts,
                        written |-> written,
                        status |-> "INVALID_RESUME_DATA",
                        error |-> createError("INVALID_RESUME_DATA") ]
       ELSE /\ pdf' = embeddedPDF(pdf, resume, opts)
            /\ emb' = [ op |-> "embed", resume |-> resume, opts |-> opts,
                        written |-> written + 1, status |-> "ok" ]
    /\ ext' = [op |-> "none"]
    /\ UNCHANGED <<migrations, mig, customRules, val>>
    /\ UNCHANGED schemaVars

(***************************************************************************)
(* ResumeMigrator.  An edge is [fromVersion, toVersion, kind]; kind names  *)
(* what the edge's transform does with the record it is given:             *)
(*   "addSkills", "contact", "metrics", "downgrade"  built-in transforms   *)
(*        that edit the content in place and leave the markers alone       *)
(*        ("addSkills" throws on a malformed skills section)               *)
(*   "restructure"  the built-in 1.0.0 -> 2.0.0 transform: returns a new   *)
(*        object that carries schema_version '2.0.0' and no specVersion    *)
(*   "keep"   a custom transform that returns the record as it is          *)
(*   "wrong"  a custom transform that writes another schema_version        *)
(*   "throw"  a custom transform that throws                               *)
(***************************************************************************)
Edge(f, t, k) == [fromVersion |-> f, toVersion |-> t, kind |-> k]

initializeMigrations ==
    << Edge("1.0.0", "1.1.0", "addSkills"),
       Edge("1.1.0", "1.2.0", "contact"),
       Edge("1.2.0", "1.3.0", "metrics"),
       Edge("1.0.0", "2.0.0", "restructure"),
       Edge("1.1.0", "1.0.0", "downgrade") >>

transformThrows(edge, data) ==
    \/ edge.kind = "throw"
    \/ edge.kind = "addSkills" /\ data.body = "schemaBad"

transformResult(edge, data) ==
    CASE edge.kind = "restructure" ->
            Resume(Absent, "2.0.0", "v2", data.body)
      [] edge.kind = "wrong" -> [data EXCEPT !.schema_version = "0.2.0"]
      [] OTHER -> data

\* ResumeMigrator.detectVersion
migratorDetectVersion(data) ==
    IF data.schema_version # Absent THEN data.schema_version
    ELSE IF "$schema" \in DOMAIN data THEN data["$schema"].version
    ELSE "1.0.0"

\* indices of the edges leaving a version, in registration order
nextSteps(edges, version) ==
    SelectSeq([i \in 1..Len(edges) |-> i],
              LAMBDA i : edges[i].fromVersion = version)

firstHit_last(edges, steps, toVersion) ==
    IF \E k \in 1..Len(steps) : edges[steps[k]].toVersion = toVersion
    THEN steps[CHOOSE k \in 1..Len(steps) :
                  /\ edges[steps[k]].toVersion = toVersion
                  /\ \A j \in (k + 1)..Len(steps) :
                        edges[steps[j]].toVersion # toVersion]
    ELSE 0

firstHit(edges, steps, toVersion) ==
    IF \E k \in 1..Len(steps) : edges[steps[k]].toVersion = toVersion
    THEN steps[CHOOSE k \in 1..Len(steps) :
                  /\ edges[steps[k]].toVersion = toVersion
                  /\ \A j \in 1..(k - 1) : edges[steps[j]].toVersion # toVersion]
    ELSE 0

RECURSIVE pushSteps(_, _, _, _)
pushSteps(edges, steps, path, visited) ==
    IF steps = <<>> THEN <<>>
    ELSE (IF edges[Head(steps)].toVersion \notin visited
          THEN << [ version |-> edges[Head(steps)].toVersion,
                    path |-> Append(path, Head(steps)) ] >>
          ELSE <<>>)
         \o pushSteps(edges, Tail(steps), path, visited)

RECURSIVE searchQueue(_, _, _, _)
searchQueue(edges, queue, visited, toVersion) ==
    IF queue = <<>> THEN <<>>
    ELSE LET version == Head(queue).version
             path == Head(queue).path
         IN  IF version \in visited
             THEN searchQueue(edges, Tail(queue), visited, toVersion)
             ELSE LET steps == nextSteps(edges, version)
                      hit == firstHit(edges, steps, toVersion)
                  IN  IF hit # 0 THEN Append(path, hit)
                      ELSE searchQueue(edges,
                              Tail(queue) \o pushSteps(edges, steps, path,
                                                 visited \cup {version}),
                              visited \cup {version}, toVersion)

\* the path as a sequence of indices into the edge list; <<>> when none
buildMigrationPath(edges, fromVersion, toVersion) ==
    IF fromVersion = toVersion THEN <<>>
    ELSE searchQueue(edges, << [version |-> fromVersion, path |-> <<>>] >>,
                     {}, toVersion)

canMigrate_pathOnly(edges, fromVersion, toVersion) ==
    Len(buildMigrationPath(edges, fromVersion, toVersion)) > 0

canMigrate(edges, fromVersion, toVersion) ==
    \/ fromVersion = toVersion
    \/ Len(buildMigrationPath(edges, fromVersion, toVersion)) > 0

cloneData(data) == JSONparse(JSONstringify(data))

stepOf(edges, i) ==
    [ fromVersion |-> edges[i].fromVersion, toVersion |-> edges[i].toVersion,
      index |-> i ]

migrateFinalData(currentData, target) ==
    [currentData EXCEPT !.schema_version = target]

RECURSIVE applyPath_skipFailed(_, _, _, _, _, _)
applyPath_skipFailed(edges, path, currentData, appliedSteps, sourceVersion, target) ==
    IF path = <<>>
    THEN [ ok |-> TRUE, data |-> migrateFinalData(currentData, target),
           error |-> [kind |-> "none"],
           fromVersion |-> sourceVersion, toVersion |-> target,
           steps |-> appliedSteps ]
    ELSE IF transformThrows(edges[Head(path)], currentData)
    THEN applyPath_skipFailed(edges, Tail(path), currentData, appliedSteps,
                              sourceVersion, target)
    ELSE applyPath_skipFailed(edges, Tail(path),
                   transformResult(edges[Head(path)], currentData),
                   Append(appliedSteps, stepOf(edges, Head(path))),
                   sourceVersion, target)

RECURSIVE applyPath(_, _, _, _, _, _)
applyPath(edges, path, currentData, appliedSteps, sourceVersion, target) ==
    IF path = <<>>
    THEN [ ok |-> TRUE, data |-> migrateFinalData(currentData, target),
           error |-> [kind |-> "none"],
           fromVersion |-> sourceVersion, toVersion |-> target,
           steps |-> appliedSteps ]
    ELSE IF transformThrows(edges[Head(path)], currentData)
    THEN [ ok |-> FALSE, data |-> [none |-> "data"],
           error |-> [ kind |-> "step failed",
                       fromVersion |-> edges[Head(path)].fromVersion,
                       toVersion |-> edges[Head(path)].toVersion ],
           fromVersion |-> sourceVersion, toVersion |-> target,
           steps |-> appliedSteps ]
    ELSE applyPath(edges, Tail(path),
                   transformResult(edges[Head(path)], currentData),
                   Append(appliedSteps, stepOf(edges, Head(path))),
                   sourceVersion, target)

\* The object the apply loop works on: ref says whether it is the caller's
\* object ("input") or another one ("copy"), val is its content.
workingObject_shared(data) == [ref |-> "input", val |-> data]

\* let currentData = this.cloneData(data)
workingObject(data) == [ref |-> "copy", val |-> cloneData(data)]

\* the built-in 1.0.0 -> 2.0.0 transform builds and returns a new object;
\* every other transform edits the object it is given and returns it
returnsNewObject(edge) == edge.kind = "restructure"

\* The caller's record once the apply loop has run over path, cur being the
\* object the loop holds and input the caller's record so far.
RECURSIVE inputAfterPath(_, _, _, _, _)
inputAfterPath(edges, path, cur, input, target) ==
    IF path = <<>>
    THEN IF cur.ref = "input" THEN migrateFinalData(cur.val, target)
         ELSE input
    ELSE IF transformThrows(edges[Head(path)], cur.val) THEN input
    ELSE LET out == transformResult(edges[Head(path)], cur.val)
         IN  IF returnsNewObject(edges[Head(path)])
             THEN inputAfterPath(edges, Tail(path),
                                 [ref |-> "copy", val |-> out], input, target)
             ELSE inputAfterPath(edges, Tail(path),
                                 [ref |-> cur.ref, val |-> out],
                                 IF cur.ref = "input" THEN out ELSE input,
                                 target)

\* the caller's record after ResumeMigrator.migrate returned
inputAfterMigrate(edges, data, targetVersion) ==
    LET target == IF targetVersion = Absent THEN CURRENT_VERSION
                  ELSE targetVersion
        sourceVersion == migratorDetectVersion(data)
    IN  IF sourceVersion = target THEN data
        ELSE inputAfterPath(edges,
                buildMigrationPath(edges, sourceVersion, target),
                workingObject(data), data, target)

\* ResumeMigrator.migrate; targetVersion may be Absent
migrate(edges, data, targetVersion) ==
    LET target == IF targetVersion = Absent THEN CURRENT_VERSION
                  ELSE targetVersion
        sourceVersion == migratorDetectVersion(data)
        migrationPath == buildMigrationPath(edges, sourceVersion, target)
    IN  IF sourceVersion = target
        THEN [ ok |-> TRUE, data |-> data, error |-> [kind |-> "none"],
               fromVersion |-> sourceVersion, toVersion |-> target,
               steps |-> <<>> ]
        ELSE IF Len(migrationPath) = 0
        THEN [ ok |-> FALSE, data |-> [none |-> "data"],
               error |-> [kind |-> "no migration path"],
               fromVersion |-> sourceVersion, toVersion |-> target,
               steps |-> <<>> ]
        ELSE applyPath(edges, migrationPath, cloneData(data), <<>>,
                       sourceVersion, target)

(***************************************************************************)
(* extractResume.  opts: [mode, validateRules, migrateToLatest,            *)
(* includeXMP].  The result carries status "ok" when the call returns and  *)
(* the error code when it throws.                                          *)
(***************************************************************************)
NoEntry == [none |-> "entry"]
NoData == [none |-> "data"]
NoMetadata == [none |-> "metadata"]

\* first entry of the name array under the given name
findEmbeddedFileByName(names, fileName) ==
    IF \E i \in 1..Len(names) : names[i].name = fileName
    THEN names[CHOOSE i \in 1..Len(names) :
                  /\ names[i].name = fileName
                  /\ \A j \in 1..(i - 1) : names[j].name # fileName]
    ELSE NoEntry

parseVFMetadata(fileSpec) == fileSpec.vf

\* ExtractResult.issues entry for a checksum mismatch
checksumIssue ==
    [type |-> "rule", severity |-> "warning", ruleId |-> "checksum-validation"]

migrationIssue_asError ==
    [type |-> "rule", severity |-> "error", ruleId |-> "version-migration"]

migrationIssue ==
    [type |-> "rule", severity |-> "warning", ruleId |-> "version-migration"]

\* detectResumeVersion of extract.ts
detectResumeVersion(resumeData) ==
    IF resumeData.schema_version # Absent THEN resumeData.schema_version
    ELSE IF "$schema" \in DOMAIN resumeData
    THEN resumeData["$schema"].version
    ELSE "1.0.0"

extractValidateOptions(version, opts, rules) ==
    [ version |-> version,
      mode |-> IF opts.mode = "lenient" THEN "lenient" ELSE "strict",
      validateRules |-> rules ]

\* the stored stream decodes and parses
payloadReadable(entry) ==
    IF parseVFMetadata(entry) # NoVF /\ parseVFMetadata(entry).compressed
    THEN canInflate(entry.data)
    ELSE canParse(entry.data)

ruleIssuesOnly(issues) == SelectSeq(issues, LAMBDA i : i.type = "rule")

extractResult(doc, opts, cache, edges) ==
    LET entry == findEmbeddedFileByName(doc.names, RESUME_FILENAME)
        xmp == IF opts.includeXMP /\ doc.xmp # NoXMP
               THEN [ hasStructuredData |-> doc.xmp.hasStructuredData,
                      specVersion |-> doc.xmp.specVersion ]
               ELSE NoXMP
    IN  IF entry = NoEntry
        THEN [ op |-> "extract", opts |-> opts, status |-> "ok", ok |-> FALSE,
               data |-> NoData, issues |-> <<>>, metadata |-> NoMetadata,
               xmp |-> xmp, error |-> "No VitaeFlow resume data found",
               migrated |-> FALSE, migratedFrom |-> Absent ]
        ELSE IF ~payloadReadable(entry)
        THEN [ op |-> "extract", opts |-> opts,
               status |-> "INVALID_RESUME_DATA", ok |-> FALSE,
               data |-> NoData, issues |-> <<>>, metadata |-> NoMetadata,
               xmp |-> NoXMP, error |-> Absent,
               migrated |-> FALSE, migratedFrom |-> Absent ]
        ELSE
        LET vfMetadata == parseVFMetadata(entry)
            jsonString == entry.data.text
            resumeData == JSONparse(jsonString)
            checksumValid ==
                IF vfMetadata # NoVF
                THEN verifyChecksum(jsonString, vfMetadata.checksum)
                ELSE TRUE
            checksumIssues ==
                IF vfMetadata # NoVF /\ ~checksumValid
                THEN << checksumIssue >> ELSE <<>>
            metadata ==
                IF vfMetadata # NoVF
                THEN [ version |-> vfMetadata.version,
                       checksum |-> vfMetadata.checksum,
                       checksumValid |-> checksumValid,
                       created |-> vfMetadata.created,
                       compressed |-> vfMetadata.compressed,
                       fileSize |-> vfMetadata.originalSize ]
                ELSE NoMetadata
            detectedVersion == detectResumeVersion(resumeData)
            schemaOpts == extractValidateOptions(detectedVersion, opts, FALSE)
            validationIssues == validate(resumeData, schemaOpts, cache).issues
            cache1 == cacheAfterValidate(resumeData, schemaOpts, cache)
            rulesIssues ==
                IF opts.validateRules
                THEN ruleIssuesOnly(
                        validate(resumeData,
                            extractValidateOptions(detectedVersion, opts, TRUE),
                            cache1).issues)
                ELSE <<>>
            wantsMigration ==
                opts.migrateToLatest /\ detectedVersion # CURRENT_VERSION
            migrationResult == migrate(edges, resumeData, CURRENT_VERSION)
            migrationIssues ==
                IF wantsMigration /\ ~migrationResult.ok
                THEN << migrationIssue >> ELSE <<>>
            issues == checksumIssues \o validationIssues \o rulesIssues
                        \o migrationIssues
        IN  [ op |-> "extract", opts |-> opts, status |-> "ok",
              ok |-> ~hasErrors(issues),
              data |-> IF wantsMigration /\ migrationResult.ok
                       THEN migrationResult.data ELSE resumeData,
              issues |-> issues, metadata |-> metadata, xmp |-> xmp,
              error |-> Absent,
              migrated |-> wantsMigration /\ migrationResult.ok,
              migratedFrom |-> IF wantsMigration /\ migrationResult.ok
                               THEN detectedVersion ELSE Absent ]

\* the compiled-schema cache after the call
extractCache(doc, opts, cache) ==
    LET entry == findEmbeddedFileByName(doc.names, RESUME_FILENAME)
    IN  IF entry = NoEntry \/ ~payloadReadable(entry) THEN cache
        ELSE cacheAfterValidate(JSONparse(entry.data.text),
                extractValidateOptions(
                    detectResumeVersion(JSONparse(entry.data.text)),
                    opts, FALSE),
                cache)

ExtractOptions ==
    { o \in [ mode : {"strict", "compatible", "lenient"},
              validateRules : BOOLEAN, migrateToLatest : BOOLEAN,
              includeXMP : BOOLEAN ] :
        /\ o.migrateToLatest = o.includeXMP
        /\ (o.migrateToLatest \/ ~o.validateRules) => o.mode = "compatible" }

extractResume(opts) ==
    /\ ext' = extractResult(pdf, opts, schemaCache, migrations)
    /\ schemaCache' = extractCache(pdf, opts, schemaCache)
    /\ UNCHANGED <<pdf, emb, migrations, mig, nEmbeds, customRules, val>>
    /\ UNCHANGED schemaVars

(***************************************************************************)
(* Another tool rewrites the stream of the embedded file and leaves the    *)
(* file specification (and so the descriptor) as it is.                    *)
(***************************************************************************)
TamperRecords ==
    { Resume(Absent, "1.0.0", "legacy", "ok2"),
      Resume(Absent, "1.1.0", "legacy", "ok") }

TamperPayloads ==
    { textEncode(JSONstringify(r)) : r \in TamperRecords }
    \cup { compressData(JSONstringify(r)) : r \in TamperRecords }
    \cup { Garbage }

firstIndexOf(names, fileName) ==
    CHOOSE i \in 1..Len(names) :
        /\ names[i].name = fileName
        /\ \A j \in 1..(i - 1) : names[j].name # fileName

tamperPayload(bytes) ==
    /\ findEmbeddedFileByName(pdf.names, RESUME_FILENAME) # NoEntry
    /\ findEmbeddedFileByName(pdf.names, RESUME_FILENAME).data # bytes
    /\ pdf' = [pdf EXCEPT
                 !.names[firstIndexOf(pdf.names, RESUME_FILENAME)].data = bytes]
    /\ ext' = [op |-> "none"]
    /\ UNCHANGED <<emb, schemaCache, migrations, mig, nEmbeds, customRules, val>>
    /\ UNCHANGED schemaVars

(***************************************************************************)
(* Migration calls.                                                        *)
(***************************************************************************)
CustomEdges ==
    { Edge("1.0.0", "2.0.0", "keep"),
      Edge("1.1.0", "1.3.0", "keep"), Edge("1.1.0", "1.3.0", "wrong"),
      Edge("1.1.0", "1.3.0", "throw"),
      Edge("2.0.0", "1.3.0", "keep"), Edge("2.0.0", "1.3.0", "throw") }

MigrateRecords ==
    { Resume(sp, sv, IF sp = Absent THEN "legacy" ELSE "namespaced", "ok") :
        sp \in {Absent, "0.1.0"}, sv \in {Absent, "1.0.0", "1.1.0"} }
    \cup { Resume(Absent, "1.0.0", "legacy", "schemaBad") }

MigrateTargets == {Absent, "1.0.0", "1.1.0", "1.3.0", "2.0.0", "0.2.0"}

addMigration(migration) ==
    /\ Len(migrations) < Len(initializeMigrations) + MaxMigrations
    /\ mig.op = "none"
    /\ migrations' = Append(migrations, migration)
    /\ UNCHANGED <<pdf, emb, ext, schemaCache, mig, nEmbeds, customRules, val>>
    /\ UNCHANGED schemaVars

migrateResume(data, targetVersion) ==
    /\ mig' = [ op |-> "migrate", input |-> data,
                targetVersion |-> targetVersion,
                result |-> migrate(migrations, data, targetVersion),
                inputAfter |-> inputAfterMigrate(migrations, data,
                                                 targetVersion) ]
    /\ UNCHANGED <<pdf, emb, ext, schemaCache, migrations, nEmbeds, customRules, val>>
    /\ UNCHANGED schemaVars

canMigrateQuery(fromVersion, toVersion) ==
    /\ mig' = [ op |-> "canMigrate", fromVersion |-> fromVersion,
                toVersion |-> toVersion,
                result |-> canMigrate(migrations, fromVersion, toVersion) ]
    /\ UNCHANGED <<pdf, emb, ext, schemaCache, migrations, nEmbeds, customRules, val>>
    /\ UNCHANGED schemaVars

QueryVersions == {"1.0.0", "1.1.0", "1.3.0", "2.0.0", "0.2.0"}

(***************************************************************************)
(* buildMigrationPath, one iteration of its while loop at a time.  mig     *)
(* holds the locals of the call: the queue, the visited set, the versions  *)
(* expanded so far, the number of iterations begun, and the path returned. *)
(***************************************************************************)
\* edges a caller may register besides the built-in ones: a self-loop, an
\* edge closing a longer cycle, and two forward edges
PathEdges ==
    { Edge("1.0.0", "1.0.0", "keep"), Edge("1.3.0", "1.1.0", "keep"),
      Edge("2.0.0", "1.3.0", "keep"), Edge("1.1.0", "1.3.0", "keep") }

\* visited.add(version)
markVisited_forget(visited, version) == visited
markVisited(visited, version) == visited \cup {version}

searchLocals(fromVersion, toVersion, queue, visited, expanded, iterations, done, path) ==
    [ op |-> "search", fromVersion |-> fromVersion, toVersion |-> toVersion,
      queue |-> queue, visited |-> visited, expanded |-> expanded,
      iterations |-> iterations, done |-> done, path |-> path ]

beginSearch(fromVersion, toVersion) ==
    /\ mig' = IF fromVersion = toVersion
              THEN searchLocals(fromVersion, toVersion, <<>>, {}, <<>>, 0,
                                TRUE, <<>>)
              ELSE searchLocals(fromVersion, toVersion,
                                << [version |-> fromVersion, path |-> <<>>] >>,
                                {}, <<>>, 0, FALSE, <<>>)
    /\ UNCHANGED <<pdf, emb, ext, schemaCache, migrations, nEmbeds, customRules, val>>
    /\ UNCHANGED schemaVars

\* the loop's exit, with the queue empty
searchExit ==
    /\ mig.op = "search" /\ ~mig.done
    /\ mig.queue = <<>>
    /\ mig' = [mig EXCEPT !.done = TRUE, !.path = <<>>]
    /\ UNCHANGED <<pdf, emb, ext, schemaCache, migrations, nEmbeds, customRules, val>>
    /\ UNCHANGED schemaVars

\* one iteration: an entry is shifted off the queue and, unless its version
\* was visited, the version is expanded
searchStep ==
    /\ mig.op = "search" /\ ~mig.done
    /\ mig.queue # <<>>
    /\ mig.iterations <= 1 + Len(migrations)
    /\ LET version == Head(mig.queue).version
           path == Head(mig.queue).path
           visited == markVisited(mig.visited, version)
           steps == nextSteps(migrations, version)
           hit == firstHit(migrations, steps, mig.toVersion)
       IN  mig' =
             IF version \in mig.visited
             THEN [mig EXCEPT !.queue = Tail(mig.queue),
                              !.iterations = mig.iterations + 1]
             ELSE IF hit # 0
             THEN [mig EXCEPT !.queue = Tail(mig.queue),
                              !.visited = visited,
                              !.expanded = Append(mig.expanded, version),
                              !.iterations = mig.iterations + 1,
                              !.done = TRUE,
                              !.path = Append(path, hit)]
             ELSE [mig EXCEPT !.queue = Tail(mig.queue)
                                  \o pushSteps(migrations, steps, path, visited),
                              !.visited = visited,
                              !.expanded = Append(mig.expanded, version),
                              !.iterations = mig.iterations + 1]
    /\ UNCHANGED <<pdf, emb, ext, schemaCache, migrations, nEmbeds, customRules, val>>
    /\ UNCHANGED schemaVars

(***************************************************************************)
(* Specifications.                                                         *)
(***************************************************************************)
EmptyPDF == [names |-> <<>>, xmp |-> NoXMP]

otherAttachment ==
    [name |-> "photo.png", data |-> Garbage, vf |-> NoVF]

staleResume(body) ==
    [ name |-> RESUME_FILENAME,
      data |-> textEncode(JSONstringify(Resume(Absent, "1.0.0", "legacy", body))),
      vf |-> NoVF ]

InitialContainers ==
    { EmptyPDF,
      [names |-> << otherAttachment >>, xmp |-> NoXMP],
      [names |-> << staleResume("ok"), otherAttachment, staleResume("ok2") >>,
       xmp |-> NoXMP] }

Init ==
    /\ pdf \in InitialContainers
    /\ emb = [op |-> "none"]
    /\ ext = [op |-> "none"]
    /\ schemaCache = {}
    /\ migrations = initializeMigrations
    /\ mig = [op |-> "none"]
    /\ nEmbeds = 0
    /\ customRules = <<>>
    /\ val = [op |-> "none"]
    /\ remoteCache = {}
    /\ network = "up"
    /\ res = [op |-> "none"]

Next ==
    \/ \E call \in EmbedCalls : embedResume(call[1], call[2])
    \/ \E opts \in ExtractOptions : extractResume(opts)
    \/ \E bytes \in TamperPayloads : tamperPayload(bytes)

Spec == Init /\ [][Next]_vars

\* The migration engine on its own: edges are registered, records migrated.
MigInit == Init /\ pdf = EmptyPDF

MigNext ==
    \/ \E migration \in CustomEdges : addMigration(migration)
    \/ \E data \in MigrateRecords, targetVersion \in MigrateTargets :
           migrateResume(data, targetVersion)
    \/ \E fromVersion \in QueryVersions, toVersion \in QueryVersions :
           canMigrateQuery(fromVersion, toVersion)

MigSpec == MigInit /\ [][MigNext]_vars

\* The path search on its own: edges are registered, then searches run.
PathNext ==
    \/ \E migration \in PathEdges : addMigration(migration)
    \/ \E fromVersion \in QueryVersions, toVersion \in QueryVersions :
           beginSearch(fromVersion, toVersion)
    \/ searchStep
    \/ searchExit

PathSpec == MigInit /\ [][PathNext]_vars

(***************************************************************************)
(* The global validator: rules are registered and removed, records are     *)
(* validated.                                                              *)
(***************************************************************************)
MaxRules == 2

RegisteredRules ==
    { [id |-> "custom-a", message |-> "first", priority |-> <<1>>,
       behaviour |-> "error"],
      [id |-> "custom-a", message |-> "second", priority |-> <<>>,
       behaviour |-> "warning"],
      [id |-> "custom-b", message |-> "b", priority |-> <<5>>,
       behaviour |-> "throws"],
      [id |-> "email-format", message |-> "mine", priority |-> <<9>>,
       behaviour |-> "silent"] }

CallRules ==
    { <<>>,
      << [id |-> "custom-c", message |-> "c", priority |-> <<1>>,
          behaviour |-> "throws"] >>,
      << [id |-> "custom-a", message |-> "call", priority |-> <<>>,
          behaviour |-> "warning"],
         [id |-> "custom-d", message |-> "d", priority |-> <<>>,
          behaviour |-> "error",
          appliesTo |-> [op |-> ">=", version |-> "2.0.0"]] >> }

ValidateRecords ==
    { Resume(Absent, "1.0.0", "legacy", b) :
          b \in {"ok", "schemaBad", "ruleBad", "duplicates"} }

ValidateOptions ==
    { o \in [ mode : {"strict", "lenient"}, validateRules : BOOLEAN,
              skipRules : { {}, {"custom-a"},
                            {"required-experience-or-education", "custom-b"} },
              customRules : CallRules,
              maxIssues : { <<>>, <<0>>, <<1>> } ] :
        /\ (o.mode = "lenient" \/ ~o.validateRules) =>
               /\ o.skipRules = {} /\ o.maxIssues = <<>>
               /\ o.customRules # <<>>
        /\ o.mode = "lenient" => o.validateRules
        /\ o.maxIssues # <<>> => o.skipRules = {} }

addCustomRule(rule) ==
    /\ Len(customRules) < MaxRules
    /\ customRules' = Append(customRules, rule)
    /\ val' = [op |-> "addCustomRule", rule |-> rule]
    /\ UNCHANGED <<pdf, emb, ext, schemaCache, migrations, mig, nEmbeds>>
    /\ UNCHANGED schemaVars

removeCustomRule(ruleId) ==
    /\ customRules' = SelectSeq(customRules, LAMBDA rule : rule.id # ruleId)
    /\ val' = [op |-> "removeCustomRule", ruleId |-> ruleId]
    /\ UNCHANGED <<pdf, emb, ext, schemaCache, migrations, mig, nEmbeds>>
    /\ UNCHANGED schemaVars

validateResume(data, options) ==
    /\ val' = [ op |-> "validate", data |-> data, options |-> options,
                registered |-> customRules,
                result |-> validate(data, options, schemaCache) ]
    /\ schemaCache' = val'.result.cache
    /\ remoteCache' = val'.result.downloads
    /\ res' = [op |-> "none"]
    /\ UNCHANGED <<pdf, emb, ext, migrations, mig, nEmbeds, customRules,
                   network>>

RuleIds == { rule.id : rule \in RegisteredRules }

ValInit == Init /\ pdf = EmptyPDF

ValNext ==
    \/ \E rule \in RegisteredRules : addCustomRule(rule)
    \/ \E ruleId \in RuleIds : removeCustomRule(ruleId)
    \/ \E data \in ValidateRecords, options \in ValidateOptions :
           validateResume(data, options)

ValSpec == ValInit /\ [][ValNext]_vars

(***************************************************************************)
(* Schema resolution on its own.                                           *)
(***************************************************************************)
RequestedVersions ==
    {"", "invalid", "0.x.0", "a.b.c", "1.1", "0.1.0", "0.1.5", "0.2.0",
     "0.3.0", "1.0.0", "2.0.0"}

AvailableVersions == SUBSET {"0.1.0", "0.1.2", "0.2.0", "0.3.0", "1.1.0"}

compatibleQuery(requestedVersion, availableVersions) ==
    /\ res' = [ op |-> "findCompatibleVersion",
                requestedVersion |-> requestedVersion,
                availableVersions |-> availableVersions,
                result |-> findCompatibleVersion(requestedVersion,
                                                 availableVersions) ]
    /\ UNCHANGED <<pdf, emb, ext, schemaCache, migrations, mig, nEmbeds,
                   customRules, val, remoteCache, network>>

CompatInit == Init /\ pdf = EmptyPDF

CompatNext ==
    \E requestedVersion \in RequestedVersions,
       availableVersions \in AvailableVersions :
        compatibleQuery(requestedVersion, availableVersions)

CompatSpec == CompatInit /\ [][CompatNext]_vars

(***************************************************************************)
(* Schema resolution with downloads: schemas are resolved for versions and *)
(* for records, records that name a schema URL are validated, the network  *)
(* comes and goes, and the download cache expires.                         *)
(***************************************************************************)
TrustedUrl == [head |-> "https://vitaeflow.org/schemas/", version |-> "0.9.0"]

UntrustedUrl == [head |-> "https://evil.example/schemas/", version |-> "0.9.0"]

SchemaUrls ==
    { TrustedUrl, UntrustedUrl,
      [head |-> "https://cdn.jsdelivr.net/npm/@vitaeflow/vitae-schema",
       version |-> "0.1.0"],
      [head |-> "http://vitaeflow.org/schemas/", version |-> "0.9.0"] }

withSchemaUrl(data, url) ==
    [ f \in DOMAIN data \cup {"$schema"} |->
        IF f = "$schema" THEN url ELSE data[f] ]

ResolveVersions == {"0.1.0", "0.9.0", "1.1.0", "999.0.0"}

SchemaOptions ==
    { o \in [ useRemoteSchema : {"undefined", "true", "false"},
              fallbackToLocal : {"undefined", "false"},
              schemaUrl : {NoUrl} \cup SchemaUrls ] :
        /\ o.useRemoteSchema # "true" =>
               /\ o.fallbackToLocal = "undefined"
               /\ o.schemaUrl \in {NoUrl, TrustedUrl, UntrustedUrl}
        /\ o.useRemoteSchema = "false" => o.schemaUrl = TrustedUrl
        /\ o.useRemoteSchema = "true" => o.schemaUrl # NoUrl
        /\ o.fallbackToLocal = "false" =>
               o.schemaUrl \in {TrustedUrl, UntrustedUrl} }

DataOptions == { o \in SchemaOptions : o.useRemoteSchema # "true" }

SchemaRecords ==
    { withSchemaUrl(Resume("0.9.0", Absent, "namespaced", "ok"), TrustedUrl),
      withSchemaUrl(Resume("0.9.0", Absent, "namespaced", "ok"), UntrustedUrl),
      withSchemaUrl(Resume(Absent, Absent, "namespaced", "ok"), TrustedUrl),
      Resume(Absent, "1.1.0", "legacy", "ok") }

RemoteValidateRecords ==
    { withSchemaUrl(Resume("0.9.0", Absent, "namespaced", "ok"), TrustedUrl),
      withSchemaUrl(Resume("0.9.0", Absent, "namespaced", "ok"), UntrustedUrl),
      Resume("0.9.0", Absent, "namespaced", "ok") }

RemoteValidateOptions ==
    { [mode |-> "compatible"],
      [mode |-> "strict"],
      [mode |-> "strict", fallbackToLocal |-> "false"],
      [mode |-> "strict", schemaUrl |-> UntrustedUrl] }

resolveSchema(version, options) ==
    /\ res' = [ op |-> "getResumeSchema", version |-> version,
                options |-> options,
                outcome |-> getResumeSchema(version, options, remoteCache,
                                            network) ]
    /\ remoteCache' = getResumeSchema(version, options, remoteCache,
                                      network).cache
    /\ val' = [op |-> "none"]
    /\ UNCHANGED <<pdf, emb, ext, schemaCache, migrations, mig, nEmbeds,
                   customRules, network>>

resolveSchemaForData(data, options) ==
    /\ res' = [ op |-> "getSchemaForData", data |-> data,
                version |-> detectVersionFromData(data),
                options |-> options,
                outcome |-> getSchemaForData(data, options, remoteCache,
                                             network) ]
    /\ remoteCache' = getSchemaForData(data, options, remoteCache,
                                       network).cache
    /\ val' = [op |-> "none"]
    /\ UNCHANGED <<pdf, emb, ext, schemaCache, migrations, mig, nEmbeds,
                   customRules, network>>

\* the network goes down or comes back
networkChanges ==
    /\ network' = IF network = "up" THEN "down" ELSE "up"
    /\ res' = [op |-> "none"]
    /\ val' = [op |-> "none"]
    /\ UNCHANGED <<pdf, emb, ext, schemaCache, migrations, mig, nEmbeds,
                   customRules, remoteCache>>

\* an hour passes: the cached downloads are no longer used
cacheExpires ==
    /\ remoteCache # {}
    /\ remoteCache' = {}
    /\ res' = [op |-> "none"]
    /\ val' = [op |-> "none"]
    /\ UNCHANGED <<pdf, emb, ext, schemaCache, migrations, mig, nEmbeds,
                   customRules, network>>

(***************************************************************************)
(* A validate call that downloads its schema, one event at a time.  res    *)
(* holds the call in flight: the runtime (fetchSchemaFromUrl takes the     *)
(* fetch branch in a browser and the https.get branch in Node), how far    *)
(* the request got, whether its timeout is still armed, the state of the   *)
(* promise fetchSchemaFromUrl returned, and whether validate has returned. *)
(***************************************************************************)
Runtimes == {"browser", "node"}

inFlight == res.op = "fetch" /\ ~res.returned

awaitingFetch == inFlight /\ res.promise = "pending"

\* validate is called and reaches the request: the URL is an official one
\* and neither cache answers
beginValidate(data, options, runtime) ==
    /\ ~inFlight
    /\ validate(data, options, schemaCache).fetched # {}
    /\ res' = [ op |-> "fetch", runtime |-> runtime, data |-> data,
                options |-> options, phase |-> "sent", timer |-> TRUE,
                promise |-> "pending", returned |-> FALSE ]
    /\ val' = [op |-> "none"]
    /\ UNCHANGED <<pdf, emb, ext, schemaCache, migrations, mig, nEmbeds,
                   customRules, remoteCache, network>>

\* the status line and headers arrive, with status 200: fetch resolves, or
\* the response callback attaches its data and end listeners
serverResponds ==
    /\ awaitingFetch /\ res.phase = "sent"
    /\ network = "up"
    /\ res' = [res EXCEPT !.phase = "body"]
    /\ UNCHANGED <<pdf, emb, ext, schemaCache, migrations, mig, nEmbeds,
                   customRules, val, remoteCache, network>>

\* the body is complete: response.json() resolves, or end is emitted
bodyEnds ==
    /\ awaitingFetch /\ res.phase = "body"
    /\ network = "up"
    /\ res' = [res EXCEPT !.phase = "done", !.timer = FALSE,
                          !.promise = "resolved"]
    /\ UNCHANGED <<pdf, emb, ext, schemaCache, migrations, mig, nEmbeds,
                   customRules, val, remoteCache, network>>

\* the connection is closed before the response is complete.  Before the
\* headers, fetch rejects and the request emits error.  After them, the
\* read of the body rejects in a browser; in Node the response emits
\* aborted and close, for which no listener is attached, the request emits
\* no error, and the socket with its idle timeout is gone.
connectionDrops ==
    /\ awaitingFetch /\ res.phase \in {"sent", "body"}
    /\ network = "up"
    /\ network' = "down"
    /\ res' = IF res.phase = "body" /\ res.runtime = "node"
              THEN [res EXCEPT !.phase = "closed", !.timer = FALSE]
              ELSE [res EXCEPT !.phase = "closed", !.timer = FALSE,
                               !.promise = "rejected"]
    /\ UNCHANGED <<pdf, emb, ext, schemaCache, migrations, mig, nEmbeds,
                   customRules, val, remoteCache>>

\* nothing arrived for remoteTimeout: controller.abort(), or the timeout
\* listener destroys the request and rejects
timeoutFires ==
    /\ awaitingFetch /\ res.timer
    /\ network' = "down"
    /\ res' = [res EXCEPT !.phase = "abandoned", !.timer = FALSE,
                          !.promise = "rejected"]
    /\ UNCHANGED <<pdf, emb, ext, schemaCache, migrations, mig, nEmbeds,
                   customRules, val, remoteCache>>

\* the promise is settled: getResumeSchema and validate run to their end
validateReturns ==
    /\ inFlight /\ res.promise # "pending"
    /\ LET result == validate(res.data, res.options, schemaCache)
       IN  /\ val' = [ op |-> "validate", data |-> res.data,
                       options |-> res.options, registered |-> customRules,
                       result |-> result ]
           /\ schemaCache' = result.cache
           /\ remoteCache' = result.downloads
    /\ res' = [res EXCEPT !.returned = TRUE]
    /\ UNCHANGED <<pdf, emb, ext, migrations, mig, nEmbeds, customRules,
                   network>>

FetchNext ==
    \/ \E data \in RemoteValidateRecords, options \in RemoteValidateOptions,
          runtime \in Runtimes : beginValidate(data, options, runtime)
    \/ serverResponds
    \/ bodyEnds
    \/ connectionDrops
    \/ timeoutFires
    \/ validateReturns

SchemaInit == Init /\ pdf = EmptyPDF

SchemaNext ==
    \/ \E version \in ResolveVersions, options \in SchemaOptions :
           resolveSchema(version, options)
    \/ \E data \in SchemaRecords, options \in DataOptions :
           resolveSchemaForData(data, options)
    \/ \E data \in RemoteValidateRecords, options \in RemoteValidateOptions :
           validateResume(data, options)
    \/ networkChanges
    \/ cacheExpires

SchemaSpec == SchemaInit /\ [][SchemaNext]_vars

\* Validate calls that download, event by event.
FetchSpec == SchemaInit /\ [][FetchNext]_vars

(***************************************************************************)
(* Properties.                                                             *)
(***************************************************************************)
resumeEntries(doc) == SelectSeq(doc.names, LAMBDA e : e.name = RESUME_FILENAME)

\* the stream the last successful embedResume call stored is still in place
payloadUnmodified ==
    /\ emb.op = "embed" /\ emb.status = "ok"
    /\ pdf.names =
         embeddedPDF([names |-> withoutName(pdf.names, RESUME_FILENAME),
                      xmp |-> NoXMP], emb.resume, emb.opts).names

carriesMarker(r) == r.specVersion # Absent \/ r.schema_version # Absent

\* data is R, or R with a version marker stamped when R carried none
equalModuloStamp(data, R) ==
    IF carriesMarker(R) THEN data = R
    ELSE /\ carriesMarker(data)
         /\ [data EXCEPT !.specVersion = Absent, !.schema_version = Absent] = R

roundTripCase ==
    /\ payloadUnmodified
    /\ emb.opts.validate /\ emb.opts.validateRules
    /\ ext.op = "extract" /\ ~ext.opts.migrateToLatest

\* C1: a record that passed validation at embed time, extracted again with
\* no migration requested, comes back with ok=true and data equal to the
\* record embedded, up to a version marker stamped when it carried none.
C1_RoundTrip ==
    roundTripCase =>
        /\ ext.status = "ok" /\ ext.ok
        /\ equalModuloStamp(ext.data, emb.resume)

C1_Witness ==
    /\ roundTripCase /\ ext.status = "ok" /\ ext.ok
    /\ ~carriesMarker(emb.resume)
    /\ ext.data = [emb.resume EXCEPT !.schema_version = CURRENT_VERSION]

otherEntries(doc) == SelectSeq(doc.names, LAMBDA e : e.name # RESUME_FILENAME)

embedStep == nEmbeds' = nEmbeds + 1

C3_RejectedNotWritten ==
    [][ ( /\ embedStep
          /\ emb'.opts.validate
          /\ ~validate(embedResumeData(emb'.resume),
                       embedValidateOptions(emb'.resume, emb'.opts),
                       schemaCache).ok )
        => (emb'.status = "INVALID_RESUME_DATA" /\ pdf' = pdf) ]_vars

C3_Witness ==
    /\ emb.op = "embed" /\ emb.status = "INVALID_RESUME_DATA"
    /\ emb.opts.validate /\ emb.resume.body = "ruleBad"
    /\ pdf \in InitialContainers

resumeEntry == findEmbeddedFileByName(pdf.names, RESUME_FILENAME)

\* an extraction of a container whose resume.json has a descriptor and a
\* stream that decodes and parses
readableWithDescriptor ==
    /\ ext.op = "extract"
    /\ resumeEntry # NoEntry
    /\ resumeEntry.vf # NoVF
    /\ payloadReadable(resumeEntry)

\* the stored text is not the text the descriptor's checksum was taken of
checksumMismatch == resumeEntry.data.text # resumeEntry.vf.checksum.sha256

checksumWarnings(issues) ==
    SelectSeq(issues, LAMBDA i : i.ruleId = "checksum-validation")

otherIssues(issues) ==
    SelectSeq(issues, LAMBDA i : i.ruleId # "checksum-validation")

\* C4: when the stored payload differs from the bytes the descriptor's
\* checksum was computed over but still decodes and parses, extractResume
\* returns (does not throw) with the data, exactly one warning issue with
\* ruleId 'checksum-validation' and checksumValid=false, and ok is decided
\* by the other issues alone; when the payload matches, there is no such
\* issue and checksumValid is true.
C4_ChecksumWarning ==
    readableWithDescriptor =>
        /\ ext.status = "ok"
        /\ ext.data # NoData
        /\ ext.ok = ~hasErrors(otherIssues(ext.issues))
        /\ IF checksumMismatch
           THEN /\ checksumWarnings(ext.issues) = << checksumIssue >>
                /\ ext.metadata.checksumValid = FALSE
           ELSE /\ checksumWarnings(ext.issues) = <<>>
                /\ ext.metadata.checksumValid = TRUE

C4_Witness ==
    /\ readableWithDescriptor /\ checksumMismatch
    /\ ext.ok /\ ext.issues = << checksumIssue >>
    /\ ext.metadata.checksumValid = FALSE

\* C5: the checksum a successful embedResume records, in the descriptor and
\* in the discovery tag, is the SHA-256 of the uncompressed serialized
\* record whatever the compress setting, and extracting the stored payload
\* verifies it against the text obtained after decompression.
C5_ChecksumOverUncompressed ==
    (emb.op = "embed" /\ emb.status = "ok") =>
        LET sha == [sha256 |-> JSONstringify(embedResumeData(emb.resume))]
        IN  /\ emb.opts.includeVFMetadata => resumeEntry.vf.checksum = sha
            /\ ~emb.opts.skipXMP => pdf.xmp.checksum = sha
            /\ (payloadUnmodified /\ readableWithDescriptor)
                  => ext.metadata.checksumValid

C5_Witness ==
    /\ payloadUnmodified /\ readableWithDescriptor
    /\ emb.opts.compress = "true" /\ resumeEntry.data.enc = "zlib"
    /\ ext.metadata.checksumValid
    /\ pdf.xmp # NoXMP /\ pdf.xmp.checksum = resumeEntry.vf.checksum

\* the decision the compress setting asks for
compressionAskedFor(resume, compress) ==
    CASE compress = "true" -> TRUE
      [] compress = "false" -> FALSE
      [] OTHER -> getDataSize(JSONstringify(embedResumeData(resume)))
                    > COMPRESS_THRESHOLD

\* C6: compress=true stores the payload compressed and compress=false
\* uncompressed whatever its size, 'auto' compresses exactly when the
\* serialized size is strictly greater than COMPRESS_THRESHOLD, and the
\* descriptor's Compressed flag equals the decision.
C6_CompressionDecision ==
    payloadUnmodified =>
        /\ (resumeEntry.data.enc = "zlib")
              = compressionAskedFor(emb.resume, emb.opts.compress)
        /\ resumeEntry.vf # NoVF =>
              resumeEntry.vf.compressed
                = compressionAskedFor(emb.resume, emb.opts.compress)

C6_Witness ==
    /\ payloadUnmodified /\ emb.opts.compress = "auto"
    /\ emb.resume.body = "padT" /\ resumeEntry.data.enc = "utf8"
    /\ resumeEntry.vf.originalSize = COMPRESS_THRESHOLD

(***************************************************************************)
(* Migration paths, stated over chains of edges rather than over the       *)
(* search that finds them.                                                 *)
(***************************************************************************)
edgeVersions(edges) ==
    { edges[i].fromVersion : i \in 1..Len(edges) }
        \cup { edges[i].toVersion : i \in 1..Len(edges) }

\* there is a chain of exactly n edges from version v to version t
RECURSIVE chain(_, _, _, _)
chain(edges, v, t, n) ==
    IF n = 0 THEN v = t
    ELSE \E i \in 1..Len(edges) :
            /\ edges[i].fromVersion = v
            /\ chain(edges, edges[i].toVersion, t, n - 1)

\* a shortest chain never visits a version twice
chainLengths(edges) == 1..(Cardinality(edgeVersions(edges)) - 1)

connected(edges, v, t) == \E n \in chainLengths(edges) : chain(edges, v, t, n)

fewestSteps(edges, v, t) ==
    CHOOSE n \in chainLengths(edges) :
        /\ chain(edges, v, t, n)
        /\ \A m \in 1..(n - 1) : ~chain(edges, v, t, m)

\* the chain of n edges from v to t that takes, at every version, the
\* earliest registered edge a chain of the remaining length can start with
RECURSIVE earliestChain(_, _, _, _)
earliestChain(edges, v, t, n) ==
    IF n = 0 THEN <<>>
    ELSE LET i == CHOOSE i \in 1..Len(edges) :
                    /\ edges[i].fromVersion = v
                    /\ chain(edges, edges[i].toVersion, t, n - 1)
                    /\ \A j \in 1..(i - 1) :
                          ~(/\ edges[j].fromVersion = v
                            /\ chain(edges, edges[j].toVersion, t, n - 1))
         IN  << stepOf(edges, i) >>
               \o earliestChain(edges, edges[i].toVersion, t, n - 1)

migrated == mig.op = "migrate" /\ mig.result.fromVersion # mig.result.toVersion

isPrefix(s, t) == Len(s) <= Len(t) /\ s = SubSeq(t, 1, Len(s))

\* C7: the steps migrate applies follow a chain from source to target with
\* the fewest steps, the earliest-registered one among equally short
\* chains; on the built-in catalogue 1.0.0 -> 1.3.0 is the three steps
\* 1.0.0->1.1.0, 1.1.0->1.2.0, 1.2.0->1.3.0 and 1.0.0 -> 2.0.0 is one step.
C7_ShortestPath ==
    (migrated /\ connected(migrations, mig.result.fromVersion,
                           mig.result.toVersion)) =>
        LET r == mig.result
            expected == earliestChain(migrations, r.fromVersion, r.toVersion,
                          fewestSteps(migrations, r.fromVersion, r.toVersion))
        IN  /\ isPrefix(r.steps, expected)
            /\ r.ok => r.steps = expected
            /\ (r.ok /\ migrations = initializeMigrations
                  /\ r.fromVersion = "1.0.0" /\ r.toVersion = "1.3.0")
                 => r.steps = << stepOf(migrations, 1), stepOf(migrations, 2),
                                 stepOf(migrations, 3) >>
            /\ (r.ok /\ migrations = initializeMigrations
                  /\ r.fromVersion = "1.0.0" /\ r.toVersion = "2.0.0")
                 => r.steps = << stepOf(migrations, 4) >>

\* two equally short chains exist and the earlier registered one is taken
C7_Witness ==
    /\ migrated /\ mig.result.ok
    /\ Len(migrations) = 7
    /\ migrations[6].fromVersion = "2.0.0" /\ migrations[7].fromVersion = "1.1.0"
    /\ mig.result.toVersion = "1.3.0"
    /\ mig.result.steps = << stepOf(migrations, 1), stepOf(migrations, 7) >>

\* C8: when source and target differ and no chain of registered edges
\* connects them, migrate returns ok=false with a 'no migration path'
\* error, no steps and no data; canMigrate answers false exactly for such
\* pairs.
C8_NoPath ==
    /\ (migrated /\ ~connected(migrations, mig.result.fromVersion,
                                mig.result.toVersion)) =>
           /\ ~mig.result.ok
           /\ mig.result.error = [kind |-> "no migration path"]
           /\ mig.result.steps = <<>>
           /\ mig.result.data = NoData
    /\ mig.op = "canMigrate" =>
           mig.result = ( \/ mig.fromVersion = mig.toVersion
                          \/ connected(migrations, mig.fromVersion,
                                        mig.toVersion) )

C8_Witness ==
    /\ migrated /\ mig.result.error.kind = "no migration path"
    /\ mig.result.fromVersion = "1.0.0" /\ mig.result.toVersion = "0.2.0"
    /\ Len(migrations) > Len(initializeMigrations)

\* the record the j-th step of a path is given
RECURSIVE dataBefore(_, _, _, _)
dataBefore(edges, path, data, j) ==
    IF j = 1 THEN data
    ELSE transformResult(edges[path[j - 1]],
                         dataBefore(edges, path, data, j - 1))

stepFails(edges, path, data, j) ==
    transformThrows(edges[path[j]], dataBefore(edges, path, data, j))

\* C9: when the transform of the k-th step of the selected path is the
\* first to fail, migrate returns ok=false with no data, an error naming
\* that step's edge and a trail of exactly the k-1 steps before it; a
\* migration with a failing step never returns ok=true.
C9_StepFailure ==
    migrated =>
        LET r == mig.result
            path == buildMigrationPath(migrations, r.fromVersion, r.toVersion)
        IN  \A k \in 1..Len(path) :
               ( /\ stepFails(migrations, path, mig.input, k)
                 /\ \A j \in 1..(k - 1) :
                       ~stepFails(migrations, path, mig.input, j) )
               => /\ ~r.ok
                  /\ r.data = NoData
                  /\ r.error = [ kind |-> "step failed",
                                  fromVersion |-> migrations[path[k]].fromVersion,
                                  toVersion |-> migrations[path[k]].toVersion ]
                  /\ r.steps = [ j \in 1..(k - 1) |-> stepOf(migrations, path[j]) ]

C9_Witness ==
    /\ migrated /\ ~mig.result.ok
    /\ mig.result.error = [ kind |-> "step failed", fromVersion |-> "1.1.0",
                             toVersion |-> "1.3.0" ]
    /\ mig.result.steps = << stepOf(migrations, 1) >>

\* C10: a migration that returns ok=true after at least one step returns a
\* record whose version marker is the target, so that detecting the version
\* of the returned record yields the target.
C10_MarkerIsTarget ==
    (migrated /\ mig.result.ok /\ Len(mig.result.steps) >= 1) =>
        /\ mig.result.data.schema_version = mig.result.toVersion
        /\ detectVersionFromData(mig.result.data) = mig.result.toVersion

C10_Witness ==
    /\ migrated /\ mig.result.ok /\ mig.input.specVersion = Absent
    /\ migrations[mig.result.steps[Len(mig.result.steps)].index].kind = "wrong"
    /\ detectVersionFromData(mig.result.data) = mig.result.toVersion

\* C11: migrate leaves the record passed in as it was on every outcome, and
\* when source equals target it applies no step and returns the input.
C11_InputNotModified ==
    mig.op = "migrate" =>
        /\ mig.inputAfter = mig.input
        /\ mig.result.fromVersion = mig.result.toVersion =>
              /\ mig.result.ok
              /\ mig.result.steps = <<>>
              /\ mig.result.data = mig.input

\* every outcome occurs: this one is a success over in-place transforms
C11_Witness ==
    /\ migrated /\ mig.result.ok /\ Len(mig.result.steps) = 3
    /\ mig.result.data # mig.input
    /\ mig.inputAfter = mig.input

(***************************************************************************)
(* The rule pipeline.                                                      *)
(***************************************************************************)
validated == val.op = "validate"

callOptions == mergeOptions(val.options)

rulesEnabled == callOptions.validateRules /\ callOptions.mode # "lenient"

\* every rule known to the call, in registration order, and those not skipped
knownRules == coreRulesV1 \o callOptions.customRules \o val.registered

notSkipped == { k \in DOMAIN knownRules :
                    knownRules[k].id \notin callOptions.skipRules }

\* what a rule contributes when it is the only rule executed
alone(rule) == executeRules(<< rule >>, val.data).issues

occurrences(seq, x) == Cardinality({ i \in DOMAIN seq : seq[i] = x })

\* how often the rules of the index set ks contribute the issue when alone
contributed(ks, issue) ==
    Cardinality(UNION { { <<k, j>> : j \in { j \in DOMAIN alone(knownRules[k]) :
                                    alone(knownRules[k])[j] = issue } } :
                        k \in ks })

ruleIssuesOf(issues) == SelectSeq(issues, LAMBDA i : i.type = "rule")

raises(rule) == ruleValidate(rule, val.data).throws

\* C12: a rule that raises contributes exactly one error issue with its id,
\* and every active rule is still called and contributes what it
\* contributes on its own, wherever the raising rule is in the order.
C12_RuleIsolation ==
    (validated /\ rulesEnabled) =>
        /\ \A k \in notSkipped :
              /\ occurrences(val.result.executed, knownRules[k]) =
                     Cardinality({ m \in notSkipped :
                                       knownRules[m] = knownRules[k] })
              /\ raises(knownRules[k]) =>
                     /\ Len(alone(knownRules[k])) = 1
                     /\ alone(knownRules[k])[1].severity = "error"
                     /\ alone(knownRules[k])[1].ruleId = knownRules[k].id
              /\ \A j \in DOMAIN alone(knownRules[k]) :
                     occurrences(val.result.allIssues, alone(knownRules[k])[j])
                         = contributed(notSkipped, alone(knownRules[k])[j])
        /\ Len(ruleIssuesOf(val.result.allIssues)) =
               Cardinality(UNION { { <<k, j>> : j \in DOMAIN alone(knownRules[k]) } :
                                   k \in notSkipped })

\* a rule raises between two rules that each contribute an issue
C12_Witness ==
    /\ validated /\ rulesEnabled
    /\ \E a, b, c \in DOMAIN val.result.executed :
          /\ a < b /\ b < c
          /\ raises(val.result.executed[b])
          /\ ~raises(val.result.executed[a])
          /\ ~raises(val.result.executed[c])
          /\ alone(val.result.executed[a]) # <<>>
          /\ alone(val.result.executed[c]) # <<>>
          /\ occurrences(val.result.allIssues,
                         alone(val.result.executed[c])[1]) = 1

\* a rule that, called on the record, raises or returns an error issue
producesError(rule) ==
    \/ raises(rule)
    \/ \E j \in DOMAIN ruleValidate(rule, val.data).issues :
           ruleValidate(rule, val.data).issues[j].severity = "error"

errorProduced ==
    \/ ~val.result.schemaValid
    \/ \E k \in DOMAIN val.result.executed :
           producesError(val.result.executed[k])

\* C13: ok is false exactly when schema validation or an executed rule
\* produced an error issue; warnings do not make it false, and maxIssues
\* shortens the returned list without changing ok.
C13_OkIffError ==
    validated => (val.result.ok <=> ~errorProduced)

\* an error was produced and maxIssues cut the list
C13_Witness ==
    /\ validated /\ errorProduced
    /\ callOptions.maxIssues # <<>>
    /\ Len(val.result.issues) < Len(val.result.allIssues)

\* without maxIssues the same holds, warnings included
C13_WithoutLimit ==
    (validated /\ callOptions.maxIssues = <<>>) =>
        (val.result.ok <=> ~errorProduced)

\* the place of a non-skipped rule in the execution order: after every rule
\* of lower priority value (none declared counts as 5) and, among equals,
\* after every rule registered before it
declared(rule) == IF rule.priority = <<>> THEN 5 ELSE rule.priority[1]

runsBefore(m, k) ==
    \/ declared(knownRules[m]) < declared(knownRules[k])
    \/ declared(knownRules[m]) = declared(knownRules[k]) /\ m < k

rank(k) == 1 + Cardinality({ m \in notSkipped : runsBefore(m, k) })

ruleAtRank(n) == knownRules[CHOOSE k \in notSkipped : rank(k) = n]

RECURSIVE issuesFromRank(_)
issuesFromRank(n) ==
    IF n > Cardinality(notSkipped) THEN <<>>
    ELSE alone(ruleAtRank(n)) \o issuesFromRank(n + 1)

expectedIssues ==
    (IF val.result.schemaValid THEN <<>> ELSE << schemaIssue >>)
        \o (IF rulesEnabled THEN issuesFromRank(1) ELSE <<>>)

\* C14: in the returned list the schema issues precede the rule issues, and
\* the rule issues come rule by rule in ascending priority, rules of equal
\* priority in registration order: built-in, per-call, then registered.
C14_IssueOrder ==
    validated =>
        /\ Len(val.result.issues) <= Len(expectedIssues)
        /\ val.result.issues =
               SubSeq(expectedIssues, 1, Len(val.result.issues))
        /\ callOptions.maxIssues = <<>> =>
               Len(val.result.issues) = Len(expectedIssues)
        /\ \A i, j \in DOMAIN val.result.issues :
               (val.result.issues[i].type = "rule"
                    /\ val.result.issues[j].type = "schema") => j < i

\* a registered rule of priority 1 reports before a built-in rule, which
\* reports before a per-call rule, which reports before a registered rule,
\* the last three of equal priority
C14_Witness ==
    /\ validated
    /\ LET reported == ruleIssuesOf(val.result.issues)
       IN  \E a, b, c, d \in DOMAIN reported :
              /\ a < b /\ b < c /\ c < d
              /\ reported[a].message = << "first" >>
              /\ reported[b].message = << "required-experience-or-education" >>
              /\ reported[c].message = << "call" >>
              /\ reported[d].message = << "second" >>

ruleIdsOf(issues) == { issues[i].ruleId : i \in DOMAIN issues }

C15_WitnessDisabled ==
    /\ validated /\ ~rulesEnabled
    /\ val.registered # <<>> /\ callOptions.customRules # <<>>
    /\ val.result.executed = <<>>

(***************************************************************************)
(* Schema resolution.                                                      *)
(***************************************************************************)
compatibleAsked == res.op = "findCompatibleVersion"

\* a version string of three numeric parts
wellFormed(v) ==
    /\ Len(versionParts(v)) = 3
    /\ \A i \in 1..3 : versionParts(v)[i] >= 0

majorOf(v) == versionParts(v)[1]

minorPatch(v) == versionParts(v)[2] * 100 + versionParts(v)[3]

gap(v, w) == IF minorPatch(v) >= minorPatch(w)
             THEN minorPatch(v) - minorPatch(w)
             ELSE minorPatch(w) - minorPatch(v)

sameMajor(requested, available) ==
    IF wellFormed(requested)
    THEN { v \in available : majorOf(v) = majorOf(requested) }
    ELSE {}

\* the answer for a requested version that is not available as such
nearestOrNull(requested, available, answer) ==
    IF sameMajor(requested, available) = {} THEN answer = "null"
    ELSE /\ answer \in sameMajor(requested, available)
         /\ \A w \in sameMajor(requested, available) :
               \/ gap(answer, requested) < gap(w, requested)
               \/ /\ gap(answer, requested) = gap(w, requested)
                  /\ minorPatch(answer) >= minorPatch(w)

\* C16: findCompatibleVersion returns the requested version when it is
\* available; otherwise the available version of the same major nearest in
\* minor*100+patch, the newer on a tie; and null when no available version
\* shares the major, when none is available, or when the requested string
\* is not a version.
C16_CompatibleVersion ==
    compatibleAsked =>
        IF res.requestedVersion \in res.availableVersions
        THEN res.result = res.requestedVersion
        ELSE nearestOrNull(res.requestedVersion, res.availableVersions,
                           res.result)

\* a tie between an older and a newer candidate, answered by the newer
C16_Witness ==
    /\ compatibleAsked
    /\ res.requestedVersion = "0.2.0"
    /\ res.availableVersions = {"0.1.0", "0.3.0", "1.1.0"}
    /\ res.result = "0.3.0"

\* the same for requested strings of three numeric parts, and for strings
\* of fewer than three parts
C16_WellFormedRequest ==
    (/\ compatibleAsked
     /\ \/ wellFormed(res.requestedVersion)
        \/ Len(versionParts(res.requestedVersion)) < 3) =>
        IF res.requestedVersion \in res.availableVersions
        THEN res.result = res.requestedVersion
        ELSE nearestOrNull(res.requestedVersion, res.availableVersions,
                           res.result)

resolved == res.op \in {"getResumeSchema", "getSchemaForData"}

\* no local schema and no local schema of the same major
unknownVersion(version) ==
    /\ version \notin LocalVersions
    /\ ~(wellFormed(version) /\ \E v \in LocalVersions : majorOf(v) = majorOf(version))

\* the minimal schema: the legacy shape for 1.x, the namespaced one otherwise
minimalFor(version, schema) ==
    /\ schema.fallback
    /\ schema.const = Absent
    /\ schema.family = IF wellFormed(version) /\ majorOf(version) = 1
                       THEN "legacy" ELSE "namespaced"

\* the call got no schema from a download
notDownloaded == res.outcome.from # "remote"

trusted(url) ==
    \/ url.head = "https://vitaeflow.org/schemas/"
    \/ url.head = "https://vitaeflow.github.io/vitaeflow-schemas/"
    \/ url.head = "https://cdn.jsdelivr.net/npm/@vitaeflow/vitae-schema"

\* the URL a call would download from: for a version, options.schemaUrl when
\* useRemoteSchema is set; for a record, its $schema, else options.schemaUrl,
\* unless useRemoteSchema is false
urlOfRecord(data, options) ==
    IF "$schema" \in DOMAIN data THEN data["$schema"] ELSE options.schemaUrl

urlInEffect ==
    IF res.op = "getResumeSchema"
    THEN IF res.options.useRemoteSchema = "true" THEN res.options.schemaUrl
         ELSE NoUrl
    ELSE IF res.op = "getSchemaForData"
    THEN IF res.options.useRemoteSchema # "false"
         THEN urlOfRecord(res.data, res.options) ELSE NoUrl
    ELSE IF validated /\ callOptions.useRemoteSchema # "false"
    THEN urlOfRecord(val.data, callOptions)
    ELSE NoUrl

refused == urlInEffect # NoUrl /\ ~trusted(urlInEffect)

requested == IF resolved THEN res.outcome.fetched
             ELSE IF validated THEN val.result.fetched ELSE {}

lookedUpInCache == IF resolved THEN res.outcome.lookedUp
                   ELSE IF validated THEN val.result.lookedUp ELSE {}

continuesLocally ==
    IF resolved
    THEN /\ ~res.outcome.raised
         /\ res.outcome.schema = localOrFallback(res.version)
    ELSE validated => ~val.result.loadingFailed

fallbackDisabled ==
    IF resolved THEN res.options.fallbackToLocal = "false"
    ELSE validated /\ callOptions.fallbackToLocal = "false"

C19_SchemaNotMutated ==
    /\ \A c \in remoteCache : c.schema = remoteSchema(c.url)
    /\ (resolved /\ res.outcome.from = "remote") =>
           res.outcome.schema.const = res.outcome.url.version

\* validate in compatible mode has downloaded a schema for a substituted
\* version and widened its version constant
C19_Witness ==
    /\ validated
    /\ callOptions.mode = "compatible"
    /\ val.result.fetched # {}
    /\ ~val.result.loadingFailed
    /\ val.result.schemaValid

(***************************************************************************)
(* Migration on extraction.                                                *)
(***************************************************************************)
\* an extraction with migrateToLatest of a stored record that decodes and
\* parses and whose version is not the current one
storedRecord == JSONparse(resumeEntry.data.text)

migrationAsked ==
    /\ ext.op = "extract"
    /\ ext.opts.migrateToLatest
    /\ resumeEntry # NoEntry
    /\ payloadReadable(resumeEntry)
    /\ detectResumeVersion(storedRecord) # CURRENT_VERSION

migrationWarnings(issues) ==
    SelectSeq(issues, LAMBDA i : i.ruleId = "version-migration")

besidesMigration(issues) ==
    SelectSeq(issues, LAMBDA i : i.ruleId # "version-migration")

migrationToCurrent == migrate(migrations, storedRecord, CURRENT_VERSION)

\* C20: with migrateToLatest and a detected version other than the current
\* one, a failed migration leaves the stored data in the result, adds one
\* warning with ruleId version-migration, sets no migrated flag and neither
\* throws nor decides ok; a successful one returns the migrated record with
\* migrated set and migratedFrom the detected version.
C20_MigrationOnExtract ==
    migrationAsked =>
        /\ ext.status = "ok"
        /\ ext.ok = ~hasErrors(besidesMigration(ext.issues))
        /\ IF migrationToCurrent.ok
           THEN /\ ext.data = migrationToCurrent.data
                /\ ext.migrated
                /\ ext.migratedFrom = detectResumeVersion(storedRecord)
                /\ migrationWarnings(ext.issues) = <<>>
           ELSE /\ ext.data = storedRecord
                /\ Len(migrationWarnings(ext.issues)) = 1
                /\ migrationWarnings(ext.issues)[1].severity = "warning"
                /\ ~ext.migrated
                /\ ext.migratedFrom = Absent

\* the migration fails and the result is still ok
C20_Witness ==
    /\ migrationAsked
    /\ ~migrationToCurrent.ok
    /\ ext.ok
    /\ ext.data = storedRecord

\* the migration succeeds and changes the record
C20_WitnessMigrated ==
    /\ migrationAsked
    /\ migrationToCurrent.ok
    /\ ext.migrated
    /\ ext.data # storedRecord

(***************************************************************************)
(* The descriptor of a call without options.                               *)
(***************************************************************************)
\* an extraction of what an embedResume call without options stored
defaultEmbedExtracted ==
    /\ payloadUnmodified
    /\ emb.opts = mergeEmbedOptions(<<>>)
    /\ ext.op = "extract" /\ ext.status = "ok"

\* C21: with default options embedResume attaches the descriptor, so that
\* extractResume on the result returns metadata, and the version in it is
\* the version of the embedded record.
C21_DefaultDescriptor ==
    defaultEmbedExtracted =>
        /\ ext.metadata # NoMetadata
        /\ ext.metadata.version = embedVersion(emb.resume)

C21_Witness ==
    /\ defaultEmbedExtracted
    /\ ext.ok
    /\ ext.metadata = NoMetadata

(***************************************************************************)
(* The validation mode of extractResume.                                   *)
(***************************************************************************)
\* an extraction that reached validation
extractValidated ==
    /\ ext.op = "extract" /\ ext.status = "ok"
    /\ resumeEntry # NoEntry
    /\ payloadReadable(resumeEntry)

schemaIssuesOf(issues) == SelectSeq(issues, LAMBDA i : i.type = "schema")

coreRuleIssuesOf(issues) ==
    SelectSeq(issues, LAMBDA i :
        /\ i.type = "rule"
        /\ i.ruleId \notin {"checksum-validation", "version-migration"})

\* what schema validation in the caller's mode gives for the stored record
inRequestedMode ==
    validate(storedRecord,
             [ version |-> detectResumeVersion(storedRecord),
               mode |-> ext.opts.mode, validateRules |-> FALSE ], {})

\* the stored record is of a minor version the schema package lacks, within
\* a major version it has
laterMinor ==
    /\ detectVersionFromData(storedRecord) \notin LocalVersions
    /\ findCompatibleVersion(detectVersionFromData(storedRecord),
                             LocalVersions) # "null"

\* C22: extractResume validates the extracted record in the mode the caller
\* requested: the schema issues are those of validation in that mode (in
\* compatible mode a record of a later minor version is held against the
\* nearest schema with the version literal relaxed), and in lenient mode no
\* business rule runs.
C22_RequestedMode ==
    extractValidated =>
        /\ schemaIssuesOf(ext.issues) = inRequestedMode.issues
        /\ ext.opts.mode = "lenient" => coreRuleIssuesOf(ext.issues) = <<>>

\* compatible mode was asked for, the record is of a later minor version
\* and would pass in compatible mode, and the extraction reports a schema
\* error
C22_Witness ==
    /\ extractValidated
    /\ ext.opts.mode = "compatible"
    /\ laterMinor
    /\ inRequestedMode.ok
    /\ schemaIssuesOf(ext.issues) # <<>>
    /\ ~ext.ok

(***************************************************************************)
(* The error of a rejected embedResume call.                               *)
(***************************************************************************)
embedRejected == emb.op = "embed" /\ emb.status # "ok"

\* C23: when embedResume rejects because validation found errors, the
\* error it raises has the kind VALIDATION_FAILED and carries the validation
\* result with its issue list.
C23_ValidationError ==
    embedRejected =>
        /\ emb.error.code = "VALIDATION_FAILED"
        /\ emb.error.validation # NoValidation
        /\ hasErrors(emb.error.validation.issues)

\* a rejection whose error carries no validation result
C23_Witness ==
    /\ embedRejected
    /\ emb.error.code = "INVALID_RESUME_DATA"
    /\ emb.error.validation = NoValidation

(***************************************************************************)
(* appliesTo.                                                              *)
(***************************************************************************)
\* v is at least w in semver order
atLeast(v, w) ==
    \/ partOrZero(v, 1) > partOrZero(w, 1)
    \/ /\ partOrZero(v, 1) = partOrZero(w, 1)
       /\ \/ partOrZero(v, 2) > partOrZero(w, 2)
          \/ /\ partOrZero(v, 2) = partOrZero(w, 2)
             /\ partOrZero(v, 3) >= partOrZero(w, 3)

satisfies(version, constraint) ==
    constraint.op = ">=" /\ atLeast(version, constraint.version)

applies(rule) ==
    "appliesTo" \in DOMAIN rule => satisfies(val.result.version, rule.appliesTo)

executedRules == { val.result.executed[i] : i \in DOMAIN val.result.executed }

\* C24: a rule that declares appliesTo runs only when the version of the
\* validated record satisfies the constraint; a rule without appliesTo that
\* is not skipped runs whatever the version.
C24_AppliesTo ==
    (validated /\ rulesEnabled /\ ~val.result.loadingFailed) =>
        /\ \A rule \in executedRules : applies(rule)
        /\ \A k \in notSkipped :
              "appliesTo" \notin DOMAIN knownRules[k] =>
                  knownRules[k] \in executedRules

\* a rule that applies from 2.0.0 on ran on a record of version 1.0.0 and
\* its issue is in the result
C24_Witness ==
    /\ validated /\ rulesEnabled
    /\ val.result.version = "1.0.0"
    /\ \E rule \in executedRules :
          /\ "appliesTo" \in DOMAIN rule
          /\ rule.appliesTo.version = "2.0.0"
          /\ \E i \in DOMAIN val.result.issues :
                val.result.issues[i].ruleId = rule.id

(***************************************************************************)
(* The compiled-schema cache and the outcome.                              *)
(***************************************************************************)
\* the same call on a validator whose compiled-schema cache is empty
withEmptyCache == validate(val.data, val.options, {})

\* C25: the compiled-schema cache never changes a validation outcome:
\* validate returns the same ok, schemaValid and issues as it would with an
\* empty cache.
C25_CacheTransparent ==
    validated =>
        /\ val.result.ok = withEmptyCache.ok
        /\ val.result.schemaValid = withEmptyCache.schemaValid
        /\ val.result.issues = withEmptyCache.issues

\* a record without $schema is accepted in strict mode by the validator
\* that an earlier call compiled from the schema another record named, and
\* is rejected when the cache is empty
C25_Witness ==
    /\ validated
    /\ val.result.cacheHit
    /\ "$schema" \notin DOMAIN val.data
    /\ mergeOptions(val.options).mode = "strict"
    /\ val.result.ok
    /\ ~withEmptyCache.ok

(***************************************************************************)
(* The version of a record.                                                *)
(***************************************************************************)
\* C26: validation, migration and extraction derive the same version for
\* the same record: specVersion, else schema_version, else the version in
\* the $schema URL, else the current version.
C26_SameVersion ==
    mig.op = "migrate" =>
        /\ mig.result.fromVersion = detectVersionFromData(mig.input)
        /\ detectResumeVersion(mig.input) = detectVersionFromData(mig.input)

\* a record whose only marker is specVersion 0.1.0 is migrated as a record
\* of version 1.0.0
C26_Witness ==
    /\ mig.op = "migrate"
    /\ mig.input.specVersion = "0.1.0"
    /\ mig.input.schema_version = Absent
    /\ detectVersionFromData(mig.input) = "0.1.0"
    /\ mig.result.fromVersion = "1.0.0"
    /\ detectResumeVersion(mig.input) = "1.0.0"

(***************************************************************************)
(* The metadata views of a container.                                      *)
(***************************************************************************)
\* SHA-256 of the stored record
storedChecksum == calculateChecksum(resumeEntry.data.text)

\* C27: after any sequence of embedResume calls, whatever their skipXMP and
\* includeVFMetadata settings, the checksum of the discovery tag and the
\* checksum of the descriptor, where present, are the SHA-256 of the stored
\* record.
C27_ViewsAgree ==
    payloadUnmodified =>
        /\ pdf.xmp # NoXMP => pdf.xmp.checksum = storedChecksum
        /\ resumeEntry.vf # NoVF => resumeEntry.vf.checksum = storedChecksum

\* a call with skipXMP replaced the record and left the discovery tag of an
\* earlier call, with the checksum of the earlier record
C27_Witness ==
    /\ payloadUnmodified
    /\ emb.opts.skipXMP
    /\ emb.written = 2
    /\ pdf.xmp # NoXMP
    /\ pdf.xmp.checksum # storedChecksum
    /\ resumeEntry.vf.checksum = storedChecksum

(***************************************************************************)
(* The issues rules return.                                                *)
(***************************************************************************)
\* what rule.validate returned for the record of the call
returned(rule) == ruleValidate(rule, val.data).issues

inSeq(seq, x) == \E i \in DOMAIN seq : seq[i] = x

\* C28: with no maxIssues limit, every issue an executed rule returned is
\* in the issues of the result, whatever valid flag the rule returned with
\* it; so are the warnings of no-duplicate-entries.
C28_ReturnedIssuesAppear ==
    (validated /\ rulesEnabled /\ callOptions.maxIssues = <<>>) =>
        \A k \in DOMAIN val.result.executed :
            ~raises(val.result.executed[k]) =>
                \A j \in DOMAIN returned(val.result.executed[k]) :
                    inSeq(val.result.issues,
                          returned(val.result.executed[k])[j])

\* no-duplicate-entries was executed on a record with a duplicate entry and
\* returned its warning, and the result holds no issue of that rule
C28_Witness ==
    /\ validated /\ rulesEnabled /\ callOptions.maxIssues = <<>>
    /\ val.data.body = "duplicates"
    /\ \E k \in DOMAIN val.result.executed :
          /\ val.result.executed[k] = coreRule("no-duplicate-entries")
          /\ Len(returned(val.result.executed[k])) = 1
          /\ returned(val.result.executed[k])[1].severity = "warning"
    /\ \A i \in DOMAIN val.result.issues :
          val.result.issues[i].ruleId # "no-duplicate-entries"

(***************************************************************************)
(* Termination of the path search.                                         *)
(***************************************************************************)
noDuplicates(seq) == \A i, j \in DOMAIN seq : seq[i] = seq[j] => i = j

\* C29: the path search terminates on every edge set addMigration can
\* build, cycles and self-loops included: no version is expanded twice, the
\* loop begins at most one iteration for the start and one per edge, and
\* what it returns is the path migrate and canMigrate work with.
C29_SearchTerminates ==
    mig.op = "search" =>
        /\ noDuplicates(mig.expanded)
        /\ mig.iterations <= 1 + Len(migrations)
        /\ mig.done =>
               mig.path = buildMigrationPath(migrations, mig.fromVersion,
                                             mig.toVersion)

\* a search for an unreachable version ended on an edge set with a
\* self-loop on an expanded version, after leaving the 1.0.0 -> 1.1.0 ->
\* 1.0.0 cycle and skipping a version queued twice
C29_Witness ==
    /\ mig.op = "search" /\ mig.done
    /\ mig.fromVersion # mig.toVersion
    /\ mig.path = <<>>
    /\ \E i \in DOMAIN migrations :
          /\ migrations[i].fromVersion = migrations[i].toVersion
          /\ inSeq(mig.expanded, migrations[i].fromVersion)
    /\ inSeq(mig.expanded, "1.0.0") /\ inSeq(mig.expanded, "1.1.0")
    /\ mig.iterations > Len(mig.expanded)
    /\ ~canMigrate(migrations, mig.fromVersion, mig.toVersion)

(***************************************************************************)
(* Remote loading and time.                                                *)
(***************************************************************************)
\* C30: every validate call that downloads its schema returns a result in
\* the end.  The event loop runs a due timer and the continuation of a
\* settled promise, and nothing obliges the server to answer: so a call in
\* flight has its promise settled or its timeout armed, by which the
\* request is abandoned and resolution goes on.
C30_EveryCallReturns == inFlight => (res.promise # "pending" \/ res.timer)

\* in Node, the connection was closed after the headers: the promise is
\* pending, the timeout is gone, and validate has not returned
C30_Witness ==
    /\ awaitingFetch
    /\ res.runtime = "node"
    /\ res.phase = "closed"
    /\ ~res.timer
    /\ "fallbackToLocal" \notin DOMAIN res.options
====
